---------------------------- MODULE Spec2Model ----------------------------
(***************************************************************************)
(* Two-tier result cache (exact key + perceptual similarity) of the facial *)
(* region service, and the Celery task that renders and stores a result.   *)
(*                                                                         *)
(* The table task_results is the only shared state.  Each worker runs one  *)
(* CacheService call or one task at a time; every SQL statement (a query,  *)
(* the flush of a commit, the refresh of an expired ORM object) is one     *)
(* atomic step, so that calls of different workers interleave between      *)
(* their statements as they do on PostgreSQL under READ COMMITTED.         *)
(*                                                                         *)
(* Spec is the CacheService as its callers may drive it; SpecTask is the   *)
(* service as deployed, where process_facial_regions_task is the only      *)
(* caller that writes the table.  A row's task_id is a fresh uuid, numbered *)
(* here when the row is inserted.                                          *)
(***************************************************************************)
EXTENDS Integers, Sequences, FiniteSets, TLC

(***************************************************************************)
(* Bounds of the model.                                                    *)
(***************************************************************************)
MaxTicks == 2
MaxOps == 3
\* Calls in SpecHits (one store, then lookups of it).
MaxHitOps == 4
\* Executions of the task (first deliveries and retries) in SpecTask.
MaxRuns == 4
\* Runs of the earlier pipeline in SpecLegacy
MaxLegacyRuns == 3
\* Opacities of SpecKeys: 0.700, 0.702, ... in steps of 0.002.
MaxOpacityStep == 6
\* Landmarks of a call of generate_svg_mask_overlay in SpecOverlay.
MaxLandmarks == 3
\* SpecForehead: the eyebrows lie up to MaxHeight pixels below or above the
\* mean of the top arc; extension_ratio goes up to MaxRatio halves.
MaxHeight == 2
MaxRatio == 4
\* Points of a path in SpecPath.
MaxPathPoints == 5
\* similarity_threshold as the caller passes it, in bits of the hash.
SimilarityThreshold == 1
\* Hex digits of a hash in SpecHamming.
MaxHashLen == 2
\* Calls of the two workers together in SpecStats.
MaxStatsOps == 5

(***************************************************************************)
(* Program constants.                                                      *)
(***************************************************************************)
default_ttl_hours == 24
max_retries == 3
\* The landmarks of a request.
NumLandmarks == 478

Workers == {"w1", "w2"}

\* The clock advances by one TTL: an entry is fresh, then exactly at its
\* expiry instant, then past it.
TickHours == default_ttl_hours

(***************************************************************************)
(* Requests.  An image is <<first 100 base64 characters, the rest>>;       *)
(* params stands for the landmark list and the render flags.               *)
(***************************************************************************)
ImgA == <<"a", "x">>
ImgA2 == <<"b", "x">>
ImgB == <<"a", "y">>

\* The landmark list with the flags other than the opacity, and
\* region_opacity in thousandths.
P1 == [landmarks |-> "l1", region_opacity |-> 700]
P2 == [landmarks |-> "l2", region_opacity |-> 700]

\* The requests that are computed and stored: an image, a re-encoding of it,
\* and another image that shares its first 100 characters.
Requests ==
  { [image |-> ImgA, params |-> P1],
    [image |-> ImgA2, params |-> P1],
    [image |-> ImgB, params |-> P1] }

\* The requests that are looked up: a stored one, and the first image with
\* other landmarks or flags (no exact entry, the same perceptual hash).
LookupRequests ==
  { [image |-> ImgA, params |-> P1],
    [image |-> ImgA, params |-> P2] }

NoRequest ==
  [image |-> <<>>, params |-> [landmarks |-> "", region_opacity |-> 0]]

(***************************************************************************)
(* Hashing.                                                                *)
(***************************************************************************)
\* calculate_phash_from_base64: the DCT hash of the decoded image, as hex
\* digits.  ImgA2 is a re-encoding of ImgA (one bit apart); ImgB is far.
calculate_phash_from_base64(image) ==
  CASE image = ImgA -> <<10, 5>>
    [] image = ImgA2 -> <<10, 4>>
    [] image = ImgB -> <<5, 10>>
    [] OTHER -> <<0, 0, 0, 0>>

\* generate_perceptual_cache_key: SHA-256 of
\* f"{image_base64[:100]}_{landmarks}_{show_labels}_{region_opacity}_{stroke_width}".
\* The digest is modelled by its preimage (SHA-256 taken as injective).
generate_perceptual_cache_key(req) ==
  [perceptual_hash |-> calculate_phash_from_base64(req.image),
   exact_key |-> [format |-> "fstring",
                  image |-> <<req.image[1]>>,
                  params |-> req.params]]

\* round(region_opacity, 2) on thousandths, to the nearest hundredth.  A
\* value that ends in 5 is not an input of the model: for those the binary
\* expansion of the float decides the direction.
round2(x) ==
  ((x + 5) \div 10) * 10

\* generate_cache_key: SHA-256 of a JSON object of MD5 digests of the whole
\* image, the landmarks and the segmentation map, and the flags.
generate_cache_key(req) ==
  [format |-> "json",
   image |-> req.image,
   params |-> [req.params EXCEPT !.region_opacity = round2(@)]]

\* bin(int(h, 16))[2:].zfill(len(h) * 4): four bits per hex digit.
HexToBin(h) ==
  [i \in 1..(4 * Len(h)) |->
     (h[((i - 1) \div 4) + 1] \div (2 ^ (3 - ((i - 1) % 4)))) % 2]

\* The distance without the branch for hashes of different lengths: zip stops
\* at the shorter one.
hamming_distance_Zip(hash1, hash2) ==
  LET bin1 == HexToBin(hash1)
      bin2 == HexToBin(hash2)
      n == IF Len(bin1) < Len(bin2) THEN Len(bin1) ELSE Len(bin2)
  IN Cardinality({i \in 1..n : bin1[i] # bin2[i]})

hamming_distance(hash1, hash2) ==
  IF Len(hash1) # Len(hash2)
    THEN (IF Len(hash1) > Len(hash2) THEN Len(hash1) ELSE Len(hash2)) * 4
    ELSE LET bin1 == HexToBin(hash1)
             bin2 == HexToBin(hash2)
         IN Cardinality({i \in 1..Len(bin1) : bin1[i] # bin2[i]})

\* is_similar_image: the distance is at most the threshold.
is_similar_image(hash1, hash2, threshold) ==
  hamming_distance(hash1, hash2) <= threshold

(***************************************************************************)
(* The result a task computes for a request: the rendered document and the *)
(* contours, a function of the request.                                    *)
(***************************************************************************)
Render(req) == [status |-> "completed", rendered_from |-> req]

(***************************************************************************)
(* State.                                                                  *)
(***************************************************************************)
VARIABLES
  db,       \* table task_results: a set of rows, task_id unique
  now,      \* datetime.utcnow(), in hours
  wk,       \* per worker: the call it runs and that call's locals
  ops,      \* calls each worker has started so far
  retryq,   \* retry messages the task has sent: a sequence of [req, retries]
  nextTask  \* the next fresh task id (Celery gives every task a uuid)

vars == <<db, now, wk, ops, retryq, nextTask>>

\* A nullable column or an Optional value: <<>> is NULL / None, <<v>> is v.
NULL == <<>>
Some(v) == <<v>>

Idle ==
  [pc |-> "idle", op |-> "none", req |-> NoRequest,
   threshold |-> 0, result_data |-> NULL, snap |-> NULL, t |-> 0,
   cache_type |-> "none", distance |-> 0, retries |-> 0, hadExact |-> FALSE,
   ret |-> NULL]

Init ==
  /\ db = {}
  /\ now = 0
  /\ wk = [w \in Workers |-> Idle]
  /\ ops = [w \in Workers |-> 0]
  /\ retryq = <<>>
  /\ nextTask = 1

(***************************************************************************)
(* Row predicates of the queries.                                          *)
(***************************************************************************)
\* Fault seeded for C2: an entry counts as fresh at its expiry instant.
NotExpired_AtExpiry(row, t) ==
  \/ row.ttl_expires_at = NULL
  \/ row.ttl_expires_at[1] >= t

\* or_(ttl_expires_at.is_(None), ttl_expires_at > datetime.utcnow())
NotExpired(row, t) ==
  \/ row.ttl_expires_at = NULL
  \/ row.ttl_expires_at[1] > t

\* and_(input_hash == exact_key, status == 'SUCCESS', or_(...))
ExactFilter(row, exact_key, t) ==
  /\ row.input_hash = exact_key
  /\ row.status = "SUCCESS"
  /\ NotExpired(row, t)

\* and_(perceptual_hash.isnot(None), status == 'SUCCESS', or_(...))
CandidateFilter(row, t) ==
  /\ row.perceptual_hash # NULL
  /\ row.status = "SUCCESS"
  /\ NotExpired(row, t)

\* Fault seeded for C9: the purge takes the entry at its expiry instant too.
ExpiredFilter_Inclusive(row, t) ==
  /\ row.ttl_expires_at # NULL
  /\ row.ttl_expires_at[1] <= t

\* A purge that runs ahead of the clock: it takes the entries that expire
\* within the coming hours as well.
ExpiredFilter_Early(row, t) ==
  /\ row.ttl_expires_at # NULL
  /\ row.ttl_expires_at[1] < t + TickHours

\* and_(ttl_expires_at.isnot(None), ttl_expires_at < datetime.utcnow())
ExpiredFilter(row, t) ==
  /\ row.ttl_expires_at # NULL
  /\ row.ttl_expires_at[1] < t

\* Fault seeded for C10: an UPDATE that matches no row passes unnoticed.
RowsMatched_Unchecked(rows) == TRUE

\* The flush of a modified row is UPDATE ... WHERE id = <loaded id>; the
\* session checks that the statement matched the row and raises
\* StaleDataError when it did not (the row was deleted meanwhile).
RowsMatched(rows) == rows # {}

(***************************************************************************)
(* The clock.                                                              *)
(***************************************************************************)
\* Time passes between the calls of w1; the one call of w2 is the call
\* that the clock overtakes between two of its statements.  The code reads
\* the clock only to compare it with expiry instants and to compute new
\* ones: once every entry is strictly past its expiry and no call is in
\* progress, a later hour compares the same, so the clock rests until then.
Tick ==
  /\ now < MaxTicks * TickHours
  /\ wk["w1"].pc \in {"idle", "done"}
  /\ \/ wk["w2"].pc \notin {"idle", "done"}
     \/ \E r \in db : r.ttl_expires_at # NULL /\ r.ttl_expires_at[1] >= now
  /\ now' = now + TickHours
  /\ UNCHANGED <<db, wk, ops, retryq, nextTask>>

\* A worker takes its next call when the last one has returned.
\* Worker w1 makes a sequence of calls; worker w2 makes one call, at any
\* moment of that sequence, so that every pair of calls is seen interleaved.
CanStartWithin(w, calls) ==
  /\ wk[w].pc \in {"idle", "done"}
  /\ ops["w1"] + ops["w2"] < calls
  /\ w = "w2" => ops[w] = 0

CanStart(w) == CanStartWithin(w, MaxOps)

StartWithin(w, rec, calls) ==
  /\ CanStartWithin(w, calls)
  /\ ops' = [ops EXCEPT ![w] = @ + 1]
  /\ wk' = [wk EXCEPT ![w] = rec]

Start(w, rec) == StartWithin(w, rec, MaxOps)

\* The call returns: its locals are gone, its answer is the caller's.
Return(w, value) ==
  wk' = [wk EXCEPT ![w] = [Idle EXCEPT !.pc = "done", !.op = wk[w].op,
                                       !.req = wk[w].req,
                                       !.hadExact = wk[w].hadExact,
                                       !.ret = value]]

(***************************************************************************)
(* CacheService.get_perceptual_cached_result                               *)
(***************************************************************************)
\* The call: its arguments, up to the first statement.
LookupCall(req, similarity_threshold) ==
  [Idle EXCEPT !.op = "lookup", !.req = req,
               !.threshold = similarity_threshold]

\* exact_match = db.query(TaskResult).filter(...).first(); then the
\* in-memory cache_hits += 1 and last_accessed = utcnow() on the loaded row.
LookupExactWithin(w, req, calls) ==
  /\ LET call == LookupCall(req, SimilarityThreshold)
         exact_key == generate_perceptual_cache_key(req).exact_key
         matches == {r \in db : ExactFilter(r, exact_key, now)}
     IN \/ /\ matches # {}
           /\ \E exact_match \in matches :
                StartWithin(w, [call EXCEPT !.pc = "lk_commit",
                                            !.snap = Some(exact_match),
                                            !.cache_type = "exact",
                                            !.t = now], calls)
        \/ /\ matches = {}
           /\ StartWithin(w, [call EXCEPT !.pc = "lk_candidates"], calls)
  /\ UNCHANGED <<db, now, retryq, nextTask>>

LookupExact(w, req) == LookupExactWithin(w, req, MaxOps)

\* The orders in which .all() may return a set of rows.
RECURSIVE ScanOrders(_)
ScanOrders(S) ==
  IF S = {} THEN {<<>>}
  ELSE UNION {{<<r>> \o rest : rest \in ScanOrders(S \ {r})} : r \in S}

\* Fault seeded for C5: the scan keeps the last candidate within the
\* threshold instead of the nearest (best_distance is never lowered).
RECURSIVE BestMatchLoop_LastWithin(_, _, _, _)
BestMatchLoop_LastWithin(candidates, perceptual_hash, best_match, limit) ==
  IF candidates = <<>>
    THEN [best_match |-> best_match,
          best_distance |->
            IF best_match = NULL THEN limit
            ELSE hamming_distance(perceptual_hash,
                                  best_match[1].perceptual_hash[1])]
    ELSE LET candidate == Head(candidates)
             distance == hamming_distance(perceptual_hash,
                                          candidate.perceptual_hash[1])
         IN IF distance < limit
              THEN BestMatchLoop_LastWithin(Tail(candidates), perceptual_hash,
                                            Some(candidate), limit)
              ELSE BestMatchLoop_LastWithin(Tail(candidates), perceptual_hash,
                                            best_match, limit)

\* for candidate in candidates: ... if distance < best_distance: ...
RECURSIVE BestMatchLoop(_, _, _, _)
BestMatchLoop(candidates, perceptual_hash, best_match, best_distance) ==
  IF candidates = <<>>
    THEN [best_match |-> best_match, best_distance |-> best_distance]
    ELSE LET candidate == Head(candidates)
             distance == hamming_distance(perceptual_hash,
                                          candidate.perceptual_hash[1])
         IN IF distance < best_distance
              THEN BestMatchLoop(Tail(candidates), perceptual_hash,
                                 Some(candidate), distance)
              ELSE BestMatchLoop(Tail(candidates), perceptual_hash,
                                 best_match, best_distance)

\* candidates = db.query(TaskResult).filter(...).all() and the scan.
LookupCandidates(w) ==
  /\ wk[w].pc = "lk_candidates"
  /\ LET perceptual_hash ==
           generate_perceptual_cache_key(wk[w].req).perceptual_hash
         candidates == {r \in db : CandidateFilter(r, now)}
     IN \E order \in ScanOrders(candidates) :
          LET best == BestMatchLoop(order, perceptual_hash, NULL,
                                    wk[w].threshold + 1)
          IN \/ /\ best.best_match # NULL
                /\ best.best_distance <= wk[w].threshold
                /\ wk' = [wk EXCEPT ![w] = [@ EXCEPT !.pc = "lk_commit",
                                                     !.snap = best.best_match,
                                                     !.cache_type = "perceptual",
                                                     !.distance = best.best_distance,
                                                     !.t = now]]
             \/ /\ ~(best.best_match # NULL /\ best.best_distance <= wk[w].threshold)
                /\ Return(w, NULL)
  /\ UNCHANGED <<db, now, ops, retryq, nextTask>>

\* db.commit() of a hit: UPDATE task_results SET cache_hits = <loaded + 1>,
\* last_accessed = ... WHERE id = <loaded id>.  A row that is gone matches
\* nothing: StaleDataError, caught by the except clause, which returns None.
LookupCommit(w) ==
  /\ wk[w].pc = "lk_commit"
  /\ LET loaded == wk[w].snap[1]
         rows == {r \in db : r.task_id = loaded.task_id}
     IN \/ /\ RowsMatched(rows)
           /\ db' = (db \ rows) \cup
                    {[r EXCEPT !.cache_hits = loaded.cache_hits + 1,
                               !.last_accessed = wk[w].t] : r \in rows}
           /\ wk' = [wk EXCEPT ![w] = [@ EXCEPT !.pc = "lk_return"]]
        \/ /\ ~RowsMatched(rows)
           /\ db' = db
           /\ Return(w, NULL)
  /\ UNCHANGED <<now, ops, retryq, nextTask>>

\* The dict a hit returns; only a perceptual hit carries the distance.
HitDict(r, cache_type, best_distance) ==
  IF cache_type = "exact"
    THEN [task_id |-> r.task_id, status |-> "SUCCESS",
          result |-> r.result_data, cache_hit |-> TRUE,
          cache_type |-> "exact", cache_hits |-> r.cache_hits]
    ELSE [task_id |-> r.task_id, status |-> "SUCCESS",
          result |-> r.result_data, cache_hit |-> TRUE,
          cache_type |-> "perceptual",
          similarity_distance |-> best_distance,
          cache_hits |-> r.cache_hits]

\* The returned dict reads the attributes the commit expired: one SELECT of
\* the row by id.  A row that is gone: ObjectDeletedError, caught, None.
LookupReturn(w) ==
  /\ wk[w].pc = "lk_return"
  /\ LET rows == {r \in db : r.task_id = wk[w].snap[1].task_id}
     IN \/ /\ rows # {}
           /\ \E r \in rows :
                Return(w, Some(HitDict(r, wk[w].cache_type, wk[w].distance)))
        \/ /\ rows = {}
           /\ Return(w, NULL)
  /\ UNCHANGED <<db, now, ops, retryq, nextTask>>

(***************************************************************************)
(* CacheService.store_task_result_with_phash                               *)
(***************************************************************************)
UpsertCall(req, result_data) ==
  [Idle EXCEPT !.op = "upsert", !.req = req,
               !.result_data = Some(result_data)]

\* ttl_expires_at = utcnow() + timedelta(hours=default_ttl_hours);
\* existing = db.query(TaskResult).filter_by(input_hash=exact_key).first()
UpsertQuery(w, call) ==
  LET exact_key == generate_perceptual_cache_key(call.req).exact_key
      matches == {r \in db : r.input_hash = exact_key}
  IN \/ /\ matches # {}
        /\ \E existing \in matches :
             wk' = [wk EXCEPT ![w] = [call EXCEPT !.pc = "up_commit",
                                                  !.snap = Some(existing),
                                                  !.t = now]]
     \/ /\ matches = {}
        /\ wk' = [wk EXCEPT ![w] = [call EXCEPT !.pc = "up_commit",
                                                !.snap = NULL,
                                                !.t = now]]

\* A direct call of store_task_result_with_phash.
UpsertWithin(w, req, calls) ==
  /\ CanStartWithin(w, calls)
  /\ ops' = [ops EXCEPT ![w] = @ + 1]
  /\ UpsertQuery(w, UpsertCall(req, Render(req)))
  /\ UNCHANGED <<db, now, retryq, nextTask>>

Upsert(w, req) == UpsertWithin(w, req, MaxOps)

\* Fault seeded for C14: a store that reports False fails the task.
Stored_FailsTask(w, success) ==
  IF wk[w].op = "task"
    THEN IF success THEN Return(w, wk[w].result_data)
         ELSE Return(w, Some([status |-> "failed", error |-> "store"]))
    ELSE Return(w, Some(success))

\* What the caller of store_task_result_with_phash does with its answer:
\* a direct caller gets the boolean; the task logs it and returns its result.
Stored(w, success) ==
  IF wk[w].op = "task"
    THEN Return(w, wk[w].result_data)
    ELSE Return(w, Some(success))

\* Fault seeded for C7: the update branch starts the hit count afresh.
UpsertUpdate_ResetsHits(r, key, result_data, t) ==
  [r EXCEPT !.result_data = result_data,
            !.perceptual_hash = Some(key.perceptual_hash),
            !.ttl_expires_at = Some(t + default_ttl_hours),
            !.last_accessed = t,
            !.cache_hits = 0]

\* The row the update branch writes over `r`.
UpsertUpdate(r, key, result_data, t) ==
  [r EXCEPT !.result_data = result_data,
            !.perceptual_hash = Some(key.perceptual_hash),
            !.ttl_expires_at = Some(t + default_ttl_hours),
            !.last_accessed = t]

\* The row the insert branch adds.
UpsertInsert(task_id, key, result_data, t, flush_time) ==
  [task_id |-> task_id,
   input_hash |-> key.exact_key,
   perceptual_hash |-> Some(key.perceptual_hash),
   status |-> "SUCCESS",
   submitted_at |-> flush_time,
   result_data |-> result_data,
   cache_hits |-> 0,
   last_accessed |-> flush_time,
   ttl_expires_at |-> Some(t + default_ttl_hours)]

\* db.commit(): the UPDATE of the loaded row by id, or the INSERT.  An UPDATE
\* that matches no row (the row was deleted meanwhile) raises StaleDataError,
\* which the except clause rolls back and reports as False.  The task's id is
\* a fresh uuid, so the INSERT cannot collide on the unique task_id.
UpsertCommit(w) ==
  /\ wk[w].pc = "up_commit"
  /\ LET key == generate_perceptual_cache_key(wk[w].req)
     IN \/ /\ wk[w].snap # NULL
           /\ LET rows == {r \in db : r.task_id = wk[w].snap[1].task_id}
              IN \/ /\ RowsMatched(rows)
                    /\ db' = (db \ rows) \cup
                             {UpsertUpdate(r, key, wk[w].result_data, wk[w].t)
                                : r \in rows}
                    /\ Stored(w, TRUE)
                 \/ /\ ~RowsMatched(rows)
                    /\ db' = db
                    /\ Stored(w, FALSE)
           /\ nextTask' = nextTask
        \/ /\ wk[w].snap = NULL
           /\ db' = db \cup {UpsertInsert(nextTask, key, wk[w].result_data,
                                          wk[w].t, now)}
           /\ nextTask' = nextTask + 1
           /\ Stored(w, TRUE)
  /\ UNCHANGED <<now, ops, retryq>>

\* A failure that is reported after the INSERT has become durable: no
\* rollback undoes it.
UpsertFault_NoRollback(w) ==
  /\ wk[w].pc = "up_commit"
  /\ db' = db \cup {UpsertInsert(nextTask,
                                  generate_perceptual_cache_key(wk[w].req),
                                  wk[w].result_data, wk[w].t, now)}
  /\ Stored(w, FALSE)
  /\ UNCHANGED <<now, ops, retryq, nextTask>>

\* The database fails under the call (connection lost, statement error):
\* the except clause rolls back and the call answers False.
UpsertFault(w) ==
  /\ wk[w].pc = "up_commit"
  /\ Stored(w, FALSE)
  /\ UNCHANGED <<db, now, ops, retryq, nextTask>>

(***************************************************************************)
(* CacheService.store_task_error                                           *)
(***************************************************************************)
\* The inputs a failure is recorded for.  A FAILURE row carries a
\* generate_cache_key key and no perceptual hash, so no query of
\* get_perceptual_cached_result or store_task_result_with_phash tells two
\* such rows apart: one input stands for all.
FailureRequests == {[image |-> ImgA, params |-> P1]}

\* The row the insert branch of store_task_error adds (result_data,
\* perceptual_hash and ttl_expires_at are not set: NULL).
ErrorInsert(task_id, req, flush_time) ==
  [task_id |-> task_id,
   input_hash |-> generate_cache_key(req),
   perceptual_hash |-> NULL,
   status |-> "FAILURE",
   submitted_at |-> flush_time,
   result_data |-> NULL,
   cache_hits |-> 0,
   last_accessed |-> flush_time,
   ttl_expires_at |-> NULL]

\* The row the update branch of store_task_error writes over `r`: status and
\* the error columns; key, payload, hash and expiry stay as they are.
ErrorUpdate(r) == [r EXCEPT !.status = "FAILURE"]

\* existing_task = query(TaskResult).filter(task_id == task_id).first().
\* The caller names the task: one that has a row, or one that has none yet
\* (its row then gets the next fresh id).
RecordFailure(w, req) ==
  /\ \E existing_task \in {Some(r) : r \in db} \cup {NULL} :
       Start(w, [Idle EXCEPT !.pc = "er_commit", !.op = "error", !.req = req,
                             !.snap = existing_task])
  /\ UNCHANGED <<db, now, retryq, nextTask>>

\* db.commit(): the UPDATE of the loaded row by id (StaleDataError when the
\* row is gone: rollback, False), or the INSERT.
ErrorCommit(w) ==
  /\ wk[w].pc = "er_commit"
  /\ \/ /\ wk[w].snap # NULL
        /\ LET rows == {r \in db : r.task_id = wk[w].snap[1].task_id}
           IN \/ /\ RowsMatched(rows)
                 /\ db' = (db \ rows) \cup {ErrorUpdate(r) : r \in rows}
                 /\ Return(w, Some(TRUE))
              \/ /\ ~RowsMatched(rows)
                 /\ db' = db
                 /\ Return(w, Some(FALSE))
        /\ nextTask' = nextTask
     \/ /\ wk[w].snap = NULL
        /\ db' = db \cup {ErrorInsert(nextTask, wk[w].req, now)}
        /\ nextTask' = nextTask + 1
        /\ Return(w, Some(TRUE))
  /\ UNCHANGED <<now, ops, retryq>>

(***************************************************************************)
(* CacheService.cleanup_expired_cache                                      *)
(***************************************************************************)
\* One DELETE ... WHERE ttl_expires_at IS NOT NULL AND ttl_expires_at < now,
\* committed; the statement's row count is returned.
Cleanup(w) ==
  /\ LET expired == {r \in db : ExpiredFilter(r, now)}
     IN /\ Start(w, [Idle EXCEPT !.pc = "done", !.op = "cleanup",
                                 !.ret = Some(Cardinality(expired))])
        /\ db' = db \ expired
  /\ UNCHANGED <<now, retryq, nextTask>>

\* The database fails under store_task_error: rollback, False.
ErrorFault(w) ==
  /\ wk[w].pc = "er_commit"
  /\ Return(w, Some(FALSE))
  /\ UNCHANGED <<db, now, ops, retryq, nextTask>>

\* The database fails under cleanup_expired_cache (the DELETE or its
\* commit): rollback, and the call answers 0.
CleanupFault(w) ==
  /\ Start(w, [Idle EXCEPT !.pc = "done", !.op = "cleanup",
                           !.ret = Some(0)])
  /\ UNCHANGED <<db, now, retryq, nextTask>>

(***************************************************************************)
(* process_facial_regions_task                                             *)
(***************************************************************************)
\* Observation only (no code reads it): when this execution began, the
\* table held a fresh SUCCESS row under the request's exact key whose payload
\* an earlier execution of this very request had stored.
HasFreshEntry(req) ==
  \E r \in db :
    /\ ExactFilter(r, generate_perceptual_cache_key(req).exact_key, now)
    /\ r.result_data = Some(Render(req))

TaskCanStart(w) ==
  /\ wk[w].pc \in {"idle", "done"}
  /\ ops["w1"] + ops["w2"] < MaxRuns
  /\ w = "w2" => ops[w] = 0

\* The worker takes the message and enters the task body.
TaskCall(req, retries) ==
  [Idle EXCEPT !.pc = "render", !.op = "task", !.req = req,
               !.retries = retries, !.hadExact = HasFreshEntry(req)]

\* A request submitted through the API: the first delivery of a task.
TaskStart(w, req) ==
  /\ TaskCanStart(w)
  /\ ops' = [ops EXCEPT ![w] = @ + 1]
  /\ wk' = [wk EXCEPT ![w] = TaskCall(req, 0)]
  /\ UNCHANGED <<db, now, retryq, nextTask>>

\* The delivery of a retry message.
TaskRetry(w) ==
  /\ TaskCanStart(w)
  /\ \E i \in 1..Len(retryq) :
       /\ wk' = [wk EXCEPT ![w] = TaskCall(retryq[i].req, retryq[i].retries)]
       /\ retryq' = [j \in 1..(Len(retryq) - 1) |->
                       IF j < i THEN retryq[j] ELSE retryq[j + 1]]
  /\ ops' = [ops EXCEPT ![w] = @ + 1]
  /\ UNCHANGED <<db, now, nextTask>>

\* The body: validate, render, build the result, then call
\* store_task_result_with_phash (its query is this step's statement); or an
\* exception on the way.  self.retry sends the retry message while retries
\* are left and raises; the enclosing except returns the failed result.
TaskRender(w) ==
  /\ wk[w].pc = "render"
  /\ \/ /\ UpsertQuery(w, [wk[w] EXCEPT
                                !.result_data = Some(Render(wk[w].req))])
        /\ retryq' = retryq
     \/ /\ retryq' = IF wk[w].retries < max_retries
                        THEN Append(retryq, [req |-> wk[w].req,
                                             retries |-> wk[w].retries + 1])
                        ELSE retryq
        /\ Return(w, Some([status |-> "failed", error |-> "render"]))
  /\ UNCHANGED <<db, now, ops, nextTask>>

\* The database fails under a statement of get_perceptual_cached_result:
\* its except clause logs the error and answers None.
LookupFault(w) ==
  /\ wk[w].pc \in {"lk_candidates", "lk_commit", "lk_return"}
  /\ Return(w, NULL)
  /\ UNCHANGED <<db, now, ops, retryq, nextTask>>

(***************************************************************************)
(* The earlier pipeline, src/tasks.py: get_cached_result, then the         *)
(* computation, then store_task_result or store_task_error.                *)
(***************************************************************************)
\* Fault seeded for C15: an error of the store during the lookup ends the
\* task instead of counting as a miss.
LookupError_Propagates(w) ==
  Return(w, Some([raised |-> "store"]))

\* get_cached_result answers None (a miss, or an error of the store that its
\* except clause caught): the task goes on to compute.
LookupError(w) ==
  wk' = [wk EXCEPT ![w] = [@ EXCEPT !.pc = "lg_render", !.snap = NULL]]

\* Observation only (no code reads it): when this run began, the table
\* held a SUCCESS row under the request's key with the payload that a
\* completed run of this very request stores.
LegacyHasEntry(req) ==
  \E r \in db : /\ r.input_hash = generate_cache_key(req)
                 /\ r.status = "SUCCESS"
                 /\ r.result_data = Some(Render(req))

\* The task starts and get_cached_result runs its query on the
\* generate_cache_key key.
LegacyStart(w, req) ==
  /\ LET call == [Idle EXCEPT !.op = "legacy", !.req = req, !.t = now,
                              !.hadExact = LegacyHasEntry(req)]
         matches == {r \in db : ExactFilter(r, generate_cache_key(req), now)}
     IN \/ /\ matches # {}
           /\ \E cached_task \in matches :
                StartWithin(w, [call EXCEPT !.pc = "lg_commit",
                                            !.snap = Some(cached_task)],
                            MaxLegacyRuns)
        \/ /\ matches = {}
           /\ StartWithin(w, [call EXCEPT !.pc = "lg_render"],
                          MaxLegacyRuns)
  /\ UNCHANGED <<db, now, retryq, nextTask>>

\* db.commit() of the hit: the UPDATE of the loaded row; a row that is gone
\* raises, get_cached_result answers None.
LegacyHitCommit(w) ==
  /\ wk[w].pc = "lg_commit"
  /\ LET loaded == wk[w].snap[1]
         rows == {r \in db : r.task_id = loaded.task_id}
     IN \/ /\ RowsMatched(rows)
           /\ db' = (db \ rows) \cup
                    {[r EXCEPT !.cache_hits = loaded.cache_hits + 1,
                               !.last_accessed = wk[w].t] : r \in rows}
           /\ wk' = [wk EXCEPT ![w] = [@ EXCEPT !.pc = "lg_return"]]
        \/ /\ ~RowsMatched(rows)
           /\ db' = db
           /\ LookupError(w)
  /\ UNCHANGED <<now, ops, retryq, nextTask>>

\* The dict of the hit is read from the refreshed row and the task returns
\* it with cache_hit True (it has no cache_type); a row that is gone raises.
LegacyHitReturn(w) ==
  /\ wk[w].pc = "lg_return"
  /\ LET rows == {r \in db : r.task_id = wk[w].snap[1].task_id}
     IN \/ /\ rows # {}
           /\ \E r \in rows :
                Return(w, Some([cache_hit |-> TRUE,
                                result |-> r.result_data,
                                cache_hits |-> r.cache_hits]))
        \/ /\ rows = {}
           /\ LookupError(w)
  /\ UNCHANGED <<db, now, ops, retryq, nextTask>>

\* The database fails under a statement of the lookup.
LegacyLookupFault(w) ==
  /\ wk[w].pc \in {"lg_commit", "lg_return"}
  /\ LookupError(w)
  /\ UNCHANGED <<db, now, ops, retryq, nextTask>>

\* The row store_task_result inserts for a task that has none.
LegacyInsert(task_id, req, result_data, t) ==
  [task_id |-> task_id,
   input_hash |-> generate_cache_key(req),
   perceptual_hash |-> NULL,
   status |-> "SUCCESS",
   submitted_at |-> t,
   result_data |-> Some(result_data),
   cache_hits |-> 0,
   last_accessed |-> t,
   ttl_expires_at |-> Some(t + default_ttl_hours)]

\* The computation, then store_task_result (the task's id is fresh: one
\* INSERT, or False when the database fails) and the result returned; or an
\* exception, then store_task_error (one INSERT; an error of it is
\* swallowed) and the exception raised again.
LegacyRender(w) ==
  /\ wk[w].pc = "lg_render"
  /\ \/ /\ \/ /\ db' = db \cup {LegacyInsert(nextTask, wk[w].req,
                                               Render(wk[w].req), now)}
              /\ nextTask' = nextTask + 1
           \/ /\ db' = db
              /\ nextTask' = nextTask
        /\ Return(w, Some(Render(wk[w].req)))
     \/ /\ \/ /\ db' = db \cup {ErrorInsert(nextTask, wk[w].req, now)}
              /\ nextTask' = nextTask + 1
           \/ /\ db' = db
              /\ nextTask' = nextTask
        /\ Return(w, Some([raised |-> "render"]))
  /\ UNCHANGED <<now, ops, retryq>>

Next ==
  \/ Tick
  \/ \E w \in Workers, req \in LookupRequests : LookupExact(w, req)
  \/ \E w \in Workers : LookupCandidates(w)
  \/ \E w \in Workers : LookupCommit(w)
  \/ \E w \in Workers : LookupReturn(w)
  \/ \E w \in Workers, req \in Requests : Upsert(w, req)
  \/ \E w \in Workers : UpsertCommit(w)
  \/ \E w \in Workers, req \in FailureRequests : RecordFailure(w, req)
  \/ \E w \in Workers : ErrorCommit(w)
  \/ \E w \in Workers : Cleanup(w)

Spec == Init /\ [][Next]_vars

\* The service as deployed: requests reach the table through the task only,
\* and the database may fail under a store.
TaskNext ==
  \/ Tick
  \/ \E w \in Workers : UpsertFault(w)
  \/ \E w \in Workers, req \in Requests : TaskStart(w, req)
  \/ \E w \in Workers : TaskRetry(w)
  \/ \E w \in Workers : TaskRender(w)
  \/ \E w \in Workers : UpsertCommit(w)

SpecTask == Init /\ [][TaskNext]_vars

\* The earlier pipeline and the purge; two requests with different keys.
LegacyNext ==
  \/ Tick
  \/ \E w \in Workers, req \in LookupRequests : LegacyStart(w, req)
  \/ \E w \in Workers : LegacyHitCommit(w)
  \/ \E w \in Workers : LegacyHitReturn(w)
  \/ \E w \in Workers : LegacyLookupFault(w)
  \/ \E w \in Workers : LegacyRender(w)
  \/ \E w \in Workers : Cleanup(w)

SpecLegacy == Init /\ [][LegacyNext]_vars

\* Lookups of one stored request, within its TTL: one worker after the
\* other and one lookup of the other worker laid across them; the database
\* may fail under a lookup.
HitsNext ==
  \/ \E w \in Workers : UpsertWithin(w, [image |-> ImgA, params |-> P1],
                                      MaxHitOps)
  \/ \E w \in Workers : UpsertCommit(w)
  \/ \E w \in Workers, req \in LookupRequests :
       LookupExactWithin(w, req, MaxHitOps)
  \/ \E w \in Workers : LookupCandidates(w)
  \/ \E w \in Workers : LookupCommit(w)
  \/ \E w \in Workers : LookupReturn(w)
  \/ \E w \in Workers : LookupFault(w)

SpecHits == Init /\ [][HitsNext]_vars

(***************************************************************************)
(* The two key functions as pure functions: each worker holds one request  *)
(* and computes both of its keys.                                          *)
(***************************************************************************)
Opacities == {700 + (2 * i) : i \in 0..MaxOpacityStep}

KeyRequests ==
  { [image |-> img, params |-> [landmarks |-> "l1", region_opacity |-> o]] :
      img \in {ImgA, ImgB}, o \in Opacities }

KeysInit ==
  /\ db = {}
  /\ now = 0
  /\ wk \in [Workers -> {[Idle EXCEPT !.req = req] : req \in KeyRequests}]
  /\ ops = [w \in Workers |-> 0]
  /\ retryq = <<>>
  /\ nextTask = 1

KeyCall(w) ==
  /\ wk[w].pc = "idle"
  /\ wk' = [wk EXCEPT ![w] =
              [@ EXCEPT !.pc = "done",
                        !.op = "keys",
                        !.ret = Some([exact_key |->
                                        generate_perceptual_cache_key(
                                          wk[w].req).exact_key,
                                      cache_key |->
                                        generate_cache_key(wk[w].req)])]]
  /\ UNCHANGED <<db, now, ops, retryq, nextTask>>

KeysNext ==
  \E w \in Workers : KeyCall(w)

SpecKeys == KeysInit /\ [][KeysNext]_vars

(***************************************************************************)
(* The submit route and the regions the task works on.                     *)
(***************************************************************************)
MEDIAPIPE_FACE_REGIONS ==
  [forehead |-> <<127, 162, 21, 54, 103, 67, 109, 10, 338, 297, 332, 284,
                  251, 389, 301, 293, 334, 296, 336, 9, 107, 66, 105, 63,
                  70>>,
   nose |-> <<55, 8, 285, 417, 412, 437, 420, 429, 279, 358, 294, 327, 326,
              2, 97, 98, 64, 129, 49, 209, 198, 236, 196, 122, 193>>,
   left_under_eye |-> <<35, 226, 25, 110, 24, 23, 22, 26, 112, 244, 245,
                        128, 121, 120, 119, 118, 117, 111>>,
   right_under_eye |-> <<465, 464, 341, 256, 252, 253, 254, 339, 255, 359,
                         353, 383, 372, 340, 346, 347, 348, 349, 350, 357>>,
   mouth |-> <<234, 116, 36, 203, 165, 167, 164, 393, 391, 423, 266, 330,
               345, 454, 323, 361, 288, 397, 365, 379, 378, 400, 377, 152,
               148, 176, 149, 150, 136, 172, 58, 132, 93>>]

\* The region maps a caller supplies: every map over these regions, the
\* empty one included.
CustomRegions ==
  [custom_region_1 |-> <<10, 20, 30, 40, 50>>,
   custom_region_2 |-> <<100, 110, 120, 130>>]

SegmentationMaps ==
  {[n \in names |-> CustomRegions[n]] : names \in SUBSET DOMAIN CustomRegions}

\* The requests of SpecSubmit: without a region map, or with one.
SubmitRequests ==
  { [image |-> ImgA, params |-> P1, segmentation_map |-> m] :
      m \in {NULL} \cup {Some(map) : map \in SegmentationMaps} }

SubmitInit ==
  /\ db = {}
  /\ now = 0
  /\ wk \in [Workers -> {[Idle EXCEPT !.req = req] : req \in SubmitRequests}]
  /\ ops = [w \in Workers |-> 0]
  /\ retryq = <<>>
  /\ nextTask = 1

\* The route builds the keyword arguments of the task and sends them.
submit_facial_processing_task_async(w) ==
  /\ wk[w].pc = "idle"
  /\ wk' = [wk EXCEPT ![w] =
              [@ EXCEPT !.pc = "queued",
                        !.op = "submit",
                        !.snap = Some([image_base64 |-> wk[w].req.image,
                                       params |-> wk[w].req.params])]]
  /\ UNCHANGED <<db, now, ops, retryq, nextTask>>

\* [landmarks[idx] for idx in region_indices if idx < len(landmarks)], a
\* landmark written as its index.
get_region_contours(region_indices) ==
  SelectSeq(region_indices, LAMBDA idx : idx < NumLandmarks)

\* The task binds its parameter segmentation_map (None when the message has
\* none), picks the regions and returns their contours.
TaskRegions(w) ==
  /\ wk[w].pc = "queued"
  /\ LET kwargs == wk[w].snap[1]
         segmentation_map == IF "segmentation_map" \in DOMAIN kwargs
                               THEN kwargs.segmentation_map
                               ELSE NULL
         facial_regions == IF segmentation_map # NULL
                              /\ DOMAIN segmentation_map[1] # {}
                             THEN segmentation_map[1]
                             ELSE MEDIAPIPE_FACE_REGIONS
     IN wk' = [wk EXCEPT ![w] =
                 [@ EXCEPT !.pc = "done",
                           !.ret = Some([status |-> "completed",
                                         region_data |->
                                           [n \in DOMAIN facial_regions |->
                                              get_region_contours(
                                                facial_regions[n])]])]]
  /\ UNCHANGED <<db, now, ops, retryq, nextTask>>

SubmitNext ==
  \/ \E w \in Workers : submit_facial_processing_task_async(w)
  \/ \E w \in Workers : TaskRegions(w)

SpecSubmit == SubmitInit /\ [][SubmitNext]_vars

(***************************************************************************)
(* generate_svg_mask_overlay as a pure function of the region map, the     *)
(* colors and the number of landmarks.  A landmark is written as its       *)
(* position in the list, from 0.                                           *)
(***************************************************************************)
\* The indices a region may hold: in range, too large, negative within the
\* list's length, and negative beyond it.
RegionIndices == (0 - MaxLandmarks - 1)..MaxLandmarks

IndexLists ==
  UNION {[1..n -> RegionIndices] : n \in 2..3}

\* The region maps, in the order of the dict: one region with any index
\* list and one with three points or two, in either order.
OverlayMaps ==
  UNION { { <<[name |-> "r1", indices |-> a], [name |-> "r2", indices |-> b]>>,
            <<[name |-> "r2", indices |-> b], [name |-> "r1", indices |-> a]>> } :
            a \in IndexLists, b \in {<<0, 1, 2>>, <<0, 1>>} }

OverlayRequests ==
  { [facial_regions |-> m, region_colors |-> c, show_labels |-> l] :
      m \in OverlayMaps, c \in SUBSET {"r1", "r2"}, l \in BOOLEAN }

OverlayInit ==
  /\ db = {}
  /\ now = 0
  /\ \E req \in OverlayRequests :
       wk = [w \in Workers |->
               IF w = "w1" THEN [Idle EXCEPT !.req = req] ELSE Idle]
  /\ ops = [w \in Workers |-> 0]
  /\ retryq = <<>>
  /\ nextTask = 1

\* landmarks[idx] of a Python list of MaxLandmarks items: a negative index
\* counts from the end.
ListItem(idx) ==
  IF idx < 0 THEN MaxLandmarks + idx ELSE idx

\* landmarks[idx] raises IndexError.
IndexError(idx) ==
  idx < 0 - MaxLandmarks

\* The loop `for idx in indices: if idx < len(landmarks): append`.
region_landmarks(indices) ==
  LET kept == SelectSeq(indices, LAMBDA idx : idx < MaxLandmarks)
  IN [i \in 1..Len(kept) |-> ListItem(kept[i])]

\* The regions the loop does not leave with `continue`.
Drawn(facial_regions, region_colors) ==
  SelectSeq(facial_regions,
            LAMBDA e : /\ e.name \in region_colors
                       /\ Len(region_landmarks(e.indices)) >= 3)

\* The landmark at position i, in pixels.
Landmark(i) ==
  [x |-> (3 * i) + 1, y |-> (i * i) + 2]

RECURSIVE SumSeq(_)
SumSeq(s) ==
  IF s = <<>> THEN 0 ELSE Head(s) + SumSeq(Tail(s))

\* f"{num / den:.2f}", in hundredths.
Format2f(num, den) ==
  ((200 * num) + den) \div (2 * den)

\* Fault seeded for C21: the label sits on the first point of the region.
Centroid_FirstPoint(points) ==
  [x |-> Format2f(Landmark(points[1]).x, 1),
   y |-> Format2f(Landmark(points[1]).y, 1)]

\* center_x, center_y as the text element prints them.
Centroid(points) ==
  [x |-> Format2f(SumSeq([i \in 1..Len(points) |-> Landmark(points[i]).x]),
                  Len(points)),
   y |-> Format2f(SumSeq([i \in 1..Len(points) |-> Landmark(points[i]).y]),
                  Len(points))]

\* Labels numbered by a counter that outlives the call: a call starts where
\* the calls before it stopped.
SvgParts_Carried(drawn, show_labels, label_counter) ==
  LET calls == Cardinality({v \in Workers : wk[v].pc = "done"})
  IN [i \in 1..Len(drawn) |->
        [tag |-> "text", label |-> label_counter + calls + (i - 1),
         x |-> 0, y |-> 0]]

\* What the loop appends to svg_parts for the regions it draws: a path, and
\* with show_labels a text that takes the next number.
RECURSIVE SvgParts(_, _, _)
SvgParts(drawn, show_labels, label_counter) ==
  IF drawn = <<>>
    THEN <<>>
    ELSE LET points == region_landmarks(Head(drawn).indices)
             path == [tag |-> "path", region |-> Head(drawn).name,
                      points |-> points]
             labelled == show_labels /\ Len(points) > 0
             text == [tag |-> "text", label |-> label_counter,
                      x |-> Centroid(points).x, y |-> Centroid(points).y]
         IN <<path>> \o (IF labelled THEN <<text>> ELSE <<>>)
              \o SvgParts(Tail(drawn), show_labels,
                          IF labelled THEN label_counter + 1
                                      ELSE label_counter)

\* The elements of the document (svg_parts between the header and the
\* closing tag, its paths and its texts apart as well), or the exception
\* that ends the call.
generate_svg_mask_overlay(w) ==
  /\ wk[w].pc = "idle"
  /\ wk[w].req # NoRequest
  /\ LET facial_regions == wk[w].req.facial_regions
         region_colors == wk[w].req.region_colors
         drawn == Drawn(facial_regions, region_colors)
         svg_parts == SvgParts(drawn, wk[w].req.show_labels, 1)
         raised == \E i \in 1..Len(facial_regions) :
                     /\ facial_regions[i].name \in region_colors
                     /\ \E j \in 1..Len(facial_regions[i].indices) :
                          /\ facial_regions[i].indices[j] < MaxLandmarks
                          /\ IndexError(facial_regions[i].indices[j])
     IN wk' = [wk EXCEPT ![w] =
                 [@ EXCEPT !.pc = "done",
                           !.op = "overlay",
                           !.ret = IF raised
                                     THEN Some([raised |-> "IndexError"])
                                     ELSE Some([svg_parts |-> svg_parts,
                                       paths |->
                                         SelectSeq(svg_parts,
                                           LAMBDA e : e.tag = "path"),
                                       texts |->
                                         SelectSeq(svg_parts,
                                           LAMBDA e : e.tag = "text")])]]
  /\ UNCHANGED <<db, now, ops, retryq, nextTask>>

OverlayNext ==
  \E w \in Workers : generate_svg_mask_overlay(w)

SpecOverlay == OverlayInit /\ [][OverlayNext]_vars

\* Two calls with the same arguments, as in test_path_generation_consistency:
\* both workers hold one request.
OverlayTwiceInit ==
  /\ db = {}
  /\ now = 0
  /\ \E req \in OverlayRequests :
       wk = [w \in Workers |-> [Idle EXCEPT !.req = req]]
  /\ ops = [w \in Workers |-> 0]
  /\ retryq = <<>>
  /\ nextTask = 1

SpecOverlayTwice == OverlayTwiceInit /\ [][OverlayNext]_vars

(***************************************************************************)
(* extrapolate_forehead_to_hairline as a pure function of the landmarks,   *)
(* the boundary list and the extension ratio.  Coordinates are exact       *)
(* rationals: x in pixels, y as y / den.                                   *)
(***************************************************************************)
top_forehead_indices ==
  <<162, 21, 54, 103, 67, 109, 10, 338, 297, 332, 284, 251>>

eyebrow_indices ==
  <<70, 63, 105, 66, 107, 336, 296, 334, 293, 300>>

reduced_extension_indices == {162, 21, 54, 103}

SeqRange(s) == {s[i] : i \in 1..Len(s)}

\* One share for every top-arc landmark: the formula without the table.
ExtensionTenths_Uniform(idx) == 10

\* The share of the base extension a top-arc landmark gets, in tenths.
ExtensionTenths(idx) ==
  IF idx \in reduced_extension_indices THEN 3
  ELSE IF idx = 67 THEN 8
  ELSE 10

\* The shift of x a top-arc landmark gets, in pixels.
XShift(idx) ==
  CASE idx = 162 -> 20
    [] idx = 21 -> 15
    [] idx = 54 -> 10
    [] idx = 103 -> 0 - 10
    [] idx = 67 -> 0 - 5
    [] OTHER -> 0

\* The landmark sets: `num_landmarks` points; the top-arc landmarks lie at
\* y = 100, 101 or 102, the eyebrow landmarks at brow_y (below the arc, level
\* with it, or above it), the others at 300.
LandmarkCounts == {0, 100, 338, 339, 401, 478}

BrowYs == (101 - MaxHeight)..(101 + MaxHeight)

FaceX(i) == i

FaceY(face, i) ==
  IF i \in SeqRange(top_forehead_indices) THEN 100 + (i % 3)
  ELSE IF i \in SeqRange(eyebrow_indices) THEN face.brow_y
  ELSE 300

\* The boundary lists: the default forehead, lists of the tests, one that
\* passes the 401st landmark, one with an index counted from the end.
ForeheadLists ==
  { MEDIAPIPE_FACE_REGIONS.forehead,
    <<10, 20, 30>>,
    <<10, 20, 30, 40, 50>>,
    <<162, 21, 400, 67>>,
    <<0 - 1, 10, 338>> }

\* extension_ratio in halves: 0.5, 1.0, ...
ForeheadRequests ==
  { [num_landmarks |-> n, brow_y |-> b, forehead_indices |-> l,
     extension_ratio |-> r] :
      n \in LandmarkCounts, b \in BrowYs, l \in ForeheadLists,
      r \in 1..MaxRatio }

ForeheadInit ==
  /\ db = {}
  /\ now = 0
  /\ \E req \in ForeheadRequests :
       wk = [w \in Workers |->
               IF w = "w1" THEN [Idle EXCEPT !.req = req] ELSE Idle]
  /\ ops = [w \in Workers |-> 0]
  /\ retryq = <<>>
  /\ nextTask = 1

\* Fault seeded for C26: a point outside the top arc is moved as well.
SourcePoint_Moved(face, i, den) ==
  [x |-> FaceX(i) + 1, y |-> FaceY(face, i) * den, den |-> den]

\* {'x': landmarks[i]['x'], 'y': landmarks[i]['y']}, y over den.
SourcePoint(face, i, den) ==
  [x |-> FaceX(i), y |-> FaceY(face, i) * den, den |-> den]

\* The call: the two reference arrays (indices below len(landmarks) only),
\* the base extension, the loop over the twelve table entries writing row i
\* of hairline_arc, and the boundary.  Indexing a row the array does not
\* have, a column of an empty array, or a landmark the list does not have
\* raises IndexError.
extrapolate_forehead_to_hairline(w) ==
  /\ wk[w].pc = "idle"
  /\ wk[w].req # NoRequest
  /\ LET face == wk[w].req
         n == face.num_landmarks
         top_arc == SelectSeq(top_forehead_indices, LAMBDA i : i < n)
         eyebrow_points == SelectSeq(eyebrow_indices, LAMBDA i : i < n)
         kT == Len(top_arc)
         kE == Len(eyebrow_points)
         den == kT * kE * 20
         sumT == SumSeq([i \in 1..kT |-> FaceY(face, top_arc[i])])
         sumE == SumSeq([i \in 1..kE |-> FaceY(face, eyebrow_points[i])])
         \* forehead_height * extension_ratio, in 1 / (kT * kE * 2)
         base_extension_distance ==
           ((sumE * kT) - (sumT * kE)) * face.extension_ratio
         \* row i of hairline_arc after the loop, labelled by table entry i
         hairline_arc(i) ==
           [x |-> FaceX(top_arc[i]) + XShift(top_forehead_indices[i]),
            y |-> (FaceY(face, top_arc[i]) * den)
                    - (base_extension_distance
                         * ExtensionTenths(top_forehead_indices[i])),
            den |-> den]
         extended_coords ==
           [idx \in SeqRange(top_forehead_indices) |->
              hairline_arc(CHOOSE i \in 1..Len(top_forehead_indices) :
                             top_forehead_indices[i] = idx)]
         item(idx) == IF idx < 0 THEN n + idx ELSE idx
         raised ==
           \/ kT = 0
           \/ kE = 0
           \/ kT < Len(top_forehead_indices)
           \/ \E j \in 1..Len(face.forehead_indices) :
                LET idx == face.forehead_indices[j]
                IN /\ idx \notin SeqRange(top_forehead_indices)
                   /\ (idx >= n \/ idx < 0 - n)
         extended_boundary ==
           [j \in 1..Len(face.forehead_indices) |->
              LET idx == face.forehead_indices[j]
              IN IF idx \in SeqRange(top_forehead_indices)
                   THEN extended_coords[idx]
                   ELSE SourcePoint(face, item(idx), den)]
     IN wk' = [wk EXCEPT ![w] =
                 [@ EXCEPT !.pc = "done",
                           !.op = "forehead",
                           !.ret = IF raised
                                     THEN Some([raised |-> "IndexError"])
                                     ELSE Some([extended_boundary |->
                                                  extended_boundary])]]
  /\ UNCHANGED <<db, now, ops, retryq, nextTask>>

\* The task's region_data for the forehead of a request whose region was
\* drawn from the extrapolated boundary: get_region_contours on the
\* landmarks themselves (the task takes 478 landmarks).
TaskContours(w) ==
  /\ wk[w].pc = "done"
  /\ wk[w].op = "forehead"
  /\ wk[w].req.num_landmarks = NumLandmarks
  /\ LET face == wk[w].req
         den == Len(top_forehead_indices) * Len(eyebrow_indices) * 20
         contour == get_region_contours(face.forehead_indices)
     IN wk' = [wk EXCEPT ![w] =
                 [@ EXCEPT !.pc = "contours",
                           !.snap = Some([i \in 1..Len(contour) |->
                                            SourcePoint(face,
                                              IF contour[i] < 0
                                                THEN NumLandmarks + contour[i]
                                                ELSE contour[i],
                                              den)])]]
  /\ UNCHANGED <<db, now, ops, retryq, nextTask>>

ForeheadNext ==
  \/ \E w \in Workers : extrapolate_forehead_to_hairline(w)
  \/ \E w \in Workers : TaskContours(w)

SpecForehead == ForeheadInit /\ [][ForeheadNext]_vars

(***************************************************************************)
(* landmarks_to_svg_path, in src/final_code.py (closed, smooth) and in     *)
(* src/app/utils/svg_generation.py (closed only).  A path is the sequence  *)
(* of its commands; a number is written in hundredths, as :.2f prints it.  *)
(***************************************************************************)
PathCoordinates == {<<0, 0>>, <<10, 0>>, <<10, 10>>}

PathLandmarks ==
  UNION {[1..n -> PathCoordinates] : n \in 0..MaxPathPoints}

\* smooth is NULL when the caller does not pass it.
PathRequests ==
  { [landmarks |-> l, closed |-> c, smooth |-> sm] :
      l \in PathLandmarks, c \in BOOLEAN,
      sm \in {NULL, Some(TRUE), Some(FALSE)} }

PathInit ==
  /\ db = {}
  /\ now = 0
  /\ \E req \in PathRequests :
       wk = [w \in Workers |->
               IF w = "w1" THEN [Idle EXCEPT !.req = req] ELSE Idle]
  /\ ops = [w \in Workers |-> 0]
  /\ retryq = <<>>
  /\ nextTask = 1

MoveTo(p) ==
  [cmd |-> "M", args |-> <<Format2f(p[1], 1), Format2f(p[2], 1)>>]

LineTo(p) ==
  [cmd |-> "L", args |-> <<Format2f(p[1], 1), Format2f(p[2], 1)>>]

ClosePath == [cmd |-> "Z", args |-> <<>>]

\* The straight path: M, then L for every later point, then Z if closed.
LinePath(landmarks, closed) ==
  <<MoveTo(landmarks[1])>>
    \o [i \in 1..(Len(landmarks) - 1) |-> LineTo(landmarks[i + 1])]
    \o (IF closed THEN <<ClosePath>> ELSE <<>>)

\* Segment i (from 0) of the smooth path over pts: the Catmull-Rom control
\* points and the end point.
CurveTo(pts, i, closed) ==
  LET at(k) == pts[k + 1]
      n == Len(pts)
      p0 == IF i = 0 THEN (IF closed THEN at(n - 2) ELSE at(0)) ELSE at(i - 1)
      p1 == at(i)
      p2 == at(i + 1)
      p3 == IF i + 2 < n THEN at(i + 2)
            ELSE (IF closed THEN at(1) ELSE at(i + 1))
  IN [cmd |-> "C",
      args |-> <<Format2f((6 * p1[1]) + (p2[1] - p0[1]), 6),
                 Format2f((6 * p1[2]) + (p2[2] - p0[2]), 6),
                 Format2f((6 * p2[1]) - (p3[1] - p1[1]), 6),
                 Format2f((6 * p2[2]) - (p3[2] - p1[2]), 6),
                 Format2f(p2[1], 1), Format2f(p2[2], 1)>>]

\* src/final_code.py.
final_landmarks_to_svg_path(landmarks, closed, smooth) ==
  IF Len(landmarks) < 2 THEN <<>>
  ELSE IF Len(landmarks) = 2
    THEN <<MoveTo(landmarks[1]), LineTo(landmarks[2])>>
  ELSE IF ~smooth \/ Len(landmarks) = 3 THEN LinePath(landmarks, closed)
  ELSE LET pts == IF closed THEN Append(landmarks, landmarks[1])
                            ELSE landmarks
       IN <<MoveTo(pts[1])>>
            \o [k \in 1..(Len(pts) - 1) |-> CurveTo(pts, k - 1, closed)]
            \o (IF closed THEN <<ClosePath>> ELSE <<>>)

\* src/app/utils/svg_generation.py.
app_landmarks_to_svg_path(landmarks, closed) ==
  IF Len(landmarks) < 2 THEN <<>> ELSE LinePath(landmarks, closed)

\* A call of the function of src/final_code.py; smooth defaults to True.
FinalPathCall(w) ==
  /\ wk[w].pc = "idle"
  /\ wk[w].req # NoRequest
  /\ wk' = [wk EXCEPT ![w] =
              [@ EXCEPT !.pc = "done",
                        !.op = "final_path",
                        !.ret = Some([path |->
                                  final_landmarks_to_svg_path(
                                    wk[w].req.landmarks, wk[w].req.closed,
                                    IF wk[w].req.smooth = NULL
                                      THEN TRUE
                                      ELSE wk[w].req.smooth[1])])]]
  /\ UNCHANGED <<db, now, ops, retryq, nextTask>>

\* A call of the function of src/app: it has no parameter smooth, so a call
\* that passes one raises TypeError.
AppPathCall(w) ==
  /\ wk[w].pc = "idle"
  /\ wk[w].req # NoRequest
  /\ wk' = [wk EXCEPT ![w] =
              [@ EXCEPT !.pc = "done",
                        !.op = "app_path",
                        !.ret = IF wk[w].req.smooth # NULL
                                  THEN Some([raised |-> "TypeError"])
                                  ELSE Some([path |->
                                    app_landmarks_to_svg_path(
                                      wk[w].req.landmarks,
                                      wk[w].req.closed)])]]
  /\ UNCHANGED <<db, now, ops, retryq, nextTask>>

PathNext ==
  \/ \E w \in Workers : FinalPathCall(w)
  \/ \E w \in Workers : AppPathCall(w)

SpecPath == PathInit /\ [][PathNext]_vars

(***************************************************************************)
(* hamming_distance and is_similar_image as functions of two hashes.  A    *)
(* hash is the hex string of a digest, a non-empty sequence of hex digits; *)
(* the perceptual hash and its MD5 fallback have different lengths.  The   *)
(* two workers hold the same pair of hashes in the two orders.             *)
(***************************************************************************)
HexDigits == {0, 1, 15}

Hashes == UNION {[1..n -> HexDigits] : n \in 1..MaxHashLen}

Thresholds == 0..(4 * MaxHashLen)

HammingInit ==
  /\ db = {}
  /\ now = 0
  /\ \E hash1 \in Hashes, hash2 \in Hashes, threshold \in Thresholds :
       wk = [w \in Workers |->
               [Idle EXCEPT !.req =
                  IF w = "w1"
                    THEN [hash1 |-> hash1, hash2 |-> hash2,
                          threshold |-> threshold]
                    ELSE [hash1 |-> hash2, hash2 |-> hash1,
                          threshold |-> threshold]]]
  /\ ops = [w \in Workers |-> 0]
  /\ retryq = <<>>
  /\ nextTask = 1

HammingCall(w) ==
  /\ wk[w].pc = "idle"
  /\ wk[w].req # NoRequest
  /\ wk' = [wk EXCEPT ![w] =
              [@ EXCEPT !.pc = "done",
                        !.op = "hamming_distance",
                        !.ret = Some([distance |->
                                  hamming_distance(wk[w].req.hash1,
                                                   wk[w].req.hash2)])]]
  /\ UNCHANGED <<db, now, ops, retryq, nextTask>>

SimilarCall(w) ==
  /\ wk[w].pc = "idle"
  /\ wk[w].req # NoRequest
  /\ wk' = [wk EXCEPT ![w] =
              [@ EXCEPT !.pc = "done",
                        !.op = "is_similar_image",
                        !.ret = Some([similar |->
                                  is_similar_image(wk[w].req.hash1,
                                                   wk[w].req.hash2,
                                                   wk[w].req.threshold)])]]
  /\ UNCHANGED <<db, now, ops, retryq, nextTask>>

HammingNext ==
  \/ \E w \in Workers : HammingCall(w)
  \/ \E w \in Workers : SimilarCall(w)

SpecHamming == HammingInit /\ [][HammingNext]_vars

(***************************************************************************)
(* CacheService.get_cache_stats.  Each count is a query of its own, and    *)
(* the session reads committed rows at each: the other worker's commits    *)
(* fall between them.  The counts after cache_hits do not enter the ratio  *)
(* and are read in the last step.  The average processing time is left     *)
(* out: the rows of the model carry none.                                  *)
(***************************************************************************)
StatsDays == {1, 7}

\* TaskResult.submitted_at >= start_date
InPeriod(row, start_date) == row.submitted_at >= start_date

\* (cache_hits / total_requests * 100) if total_requests > 0 else 0, rounded
\* to two decimals: in hundredths of a percent.
cache_hit_ratio(cache_hits, total_requests) ==
  IF total_requests > 0 THEN Format2f(100 * cache_hits, total_requests) ELSE 0

\* The label, from the unrounded ratio.
cache_efficiency(cache_hits, total_requests) ==
  LET over(percent) == /\ total_requests > 0
                       /\ 100 * cache_hits > percent * total_requests
  IN IF over(70) THEN "excellent"
     ELSE IF over(40) THEN "good"
     ELSE "needs_improvement"

\* start_date and the first count.
StatsTotalWithin(w, days, calls) ==
  /\ LET start_date == now - (24 * days)
         total_requests == Cardinality({r \in db : InPeriod(r, start_date)})
     IN StartWithin(w, [Idle EXCEPT !.op = "stats",
                                    !.pc = "st_hits",
                                    !.t = start_date,
                                    !.snap = Some([days |-> days,
                                               total_requests |-> total_requests,
                                               cache_hits |-> 0])], calls)
  /\ UNCHANGED <<db, now, retryq, nextTask>>

\* The second count: rows of the period that were hit.
StatsHits(w) ==
  /\ wk[w].pc = "st_hits"
  /\ LET cache_hits == Cardinality({r \in db : /\ InPeriod(r, wk[w].t)
                                               /\ r.cache_hits > 0})
     IN wk' = [wk EXCEPT ![w] =
                 [@ EXCEPT !.pc = "st_rest",
                           !.snap = Some([@[1] EXCEPT !.cache_hits = cache_hits])]]
  /\ UNCHANGED <<db, now, ops, retryq, nextTask>>

\* The remaining counts and the dict returned.
StatsReturn(w) ==
  /\ wk[w].pc = "st_rest"
  /\ LET total_requests == wk[w].snap[1].total_requests
         cache_hits == wk[w].snap[1].cache_hits
         successful_tasks == Cardinality({r \in db : /\ InPeriod(r, wk[w].t)
                                                     /\ r.status = "SUCCESS"})
         total_cached == Cardinality({r \in db : r.status = "SUCCESS"})
     IN Return(w, Some([period_days |-> wk[w].snap[1].days,
                        total_requests |-> total_requests,
                        cache_hits |-> cache_hits,
                        cache_hit_ratio |->
                          cache_hit_ratio(cache_hits, total_requests),
                        successful_tasks |-> successful_tasks,
                        total_cached_entries |-> total_cached,
                        cache_efficiency |->
                          cache_efficiency(cache_hits, total_requests)]))
  /\ UNCHANGED <<db, now, ops, retryq, nextTask>>

\* A query fails: the except clause returns {"error": ...}.
StatsFault(w) ==
  /\ wk[w].pc \in {"st_hits", "st_rest"}
  /\ Return(w, Some([error |-> "store"]))
  /\ UNCHANGED <<db, now, ops, retryq, nextTask>>

StatsNext ==
  \/ Tick
  \/ \E w \in Workers, req \in LookupRequests :
       UpsertWithin(w, req, MaxStatsOps)
  \/ \E w \in Workers : UpsertCommit(w)
  \/ \E w \in Workers, req \in LookupRequests :
       LookupExactWithin(w, req, MaxStatsOps)
  \/ \E w \in Workers : LookupCandidates(w)
  \/ \E w \in Workers : LookupCommit(w)
  \/ \E w \in Workers : LookupReturn(w)
  \/ \E w \in Workers, days \in StatsDays :
       StatsTotalWithin(w, days, MaxStatsOps)
  \/ \E w \in Workers : StatsHits(w)
  \/ \E w \in Workers : StatsReturn(w)
  \/ \E w \in Workers : StatsFault(w)

SpecStats == Init /\ [][StatsNext]_vars

(***************************************************************************)
(* Tasks delivered with and without a region map, and lookups for the same *)
(* requests.  The task renders the regions of its segmentation_map; the    *)
(* key functions do not take the map.                                      *)
(***************************************************************************)
RegionRequests ==
  { r \in SubmitRequests :
      \/ r.segmentation_map = NULL
      \/ DOMAIN r.segmentation_map[1] = DOMAIN CustomRegions }

RegionsNext ==
  \/ \E w \in Workers, req \in RegionRequests : TaskStart(w, req)
  \/ \E w \in Workers : TaskRetry(w)
  \/ \E w \in Workers : TaskRender(w)
  \/ \E w \in Workers : UpsertCommit(w)
  \/ \E w \in Workers, req \in RegionRequests :
       LookupExactWithin(w, req, MaxRuns)
  \/ \E w \in Workers : LookupCandidates(w)
  \/ \E w \in Workers : LookupCommit(w)
  \/ \E w \in Workers : LookupReturn(w)

SpecRegions == Init /\ [][RegionsNext]_vars

(***************************************************************************)
(* The three writers of the table with a database that may fail under      *)
(* each of them.                                                           *)
(***************************************************************************)
FaultsNext ==
  \/ Tick
  \/ \E w \in Workers, req \in LookupRequests : Upsert(w, req)
  \/ \E w \in Workers : UpsertCommit(w)
  \/ \E w \in Workers : UpsertFault(w)
  \/ \E w \in Workers, req \in FailureRequests : RecordFailure(w, req)
  \/ \E w \in Workers : ErrorCommit(w)
  \/ \E w \in Workers : ErrorFault(w)
  \/ \E w \in Workers : Cleanup(w)
  \/ \E w \in Workers : CleanupFault(w)

SpecFaults == Init /\ [][FaultsNext]_vars

(***************************************************************************)
(* CacheService.store_task_result called directly: the caller names the    *)
(* task, one that has a row or one that has none yet.                      *)
(***************************************************************************)
\* The row the update branch writes over `r`: status, payload and expiry;
\* input_hash stays as it is.
LegacyUpdate(r, result_data, t) ==
  [r EXCEPT !.status = "SUCCESS",
            !.result_data = Some(result_data),
            !.ttl_expires_at = Some(t + default_ttl_hours)]

\* existing_task = query(TaskResult).filter(task_id == task_id).first()
LegacyStore(w, req) ==
  /\ \E existing_task \in {Some(r) : r \in db} \cup {NULL} :
       Start(w, [Idle EXCEPT !.pc = "ls_commit", !.op = "store", !.req = req,
                             !.snap = existing_task, !.t = now])
  /\ UNCHANGED <<db, now, retryq, nextTask>>

\* db.commit(): the UPDATE of the loaded row by id (StaleDataError when the
\* row is gone: rollback, False), or the INSERT.
LegacyStoreCommit(w) ==
  /\ wk[w].pc = "ls_commit"
  /\ \/ /\ wk[w].snap # NULL
        /\ LET rows == {r \in db : r.task_id = wk[w].snap[1].task_id}
           IN \/ /\ RowsMatched(rows)
                 /\ db' = (db \ rows) \cup
                          {LegacyUpdate(r, Render(wk[w].req), wk[w].t)
                             : r \in rows}
                 /\ Return(w, Some(TRUE))
              \/ /\ ~RowsMatched(rows)
                 /\ db' = db
                 /\ Return(w, Some(FALSE))
        /\ nextTask' = nextTask
     \/ /\ wk[w].snap = NULL
        /\ db' = db \cup {LegacyInsert(nextTask, wk[w].req,
                                        Render(wk[w].req), wk[w].t)}
        /\ nextTask' = nextTask + 1
        /\ Return(w, Some(TRUE))
  /\ UNCHANGED <<now, ops, retryq>>

StoreNext ==
  \/ Tick
  \/ \E w \in Workers, req \in LookupRequests : LegacyStore(w, req)
  \/ \E w \in Workers : LegacyStoreCommit(w)
  \/ \E w \in Workers : Cleanup(w)

SpecStore == Init /\ [][StoreNext]_vars

(***************************************************************************)
(* Properties.                                                             *)
(***************************************************************************)
ExactKey(req) == generate_perceptual_cache_key(req).exact_key

\* The steps of the calls, recognised from the worker's position.
ExactQueryStep(w) ==
  /\ wk[w].pc \in {"idle", "done"}
  /\ wk'[w].op = "lookup"
  /\ wk'[w].pc \in {"lk_commit", "lk_candidates"}

ScanStep(w) ==
  /\ wk[w].pc = "lk_candidates"
  /\ wk'[w].pc # "lk_candidates"

HitCommitStep(w) ==
  /\ wk[w].pc = "lk_commit"
  /\ wk'[w].pc = "lk_return"

HitReturnStep(w) ==
  /\ wk[w].pc = "lk_return"
  /\ wk'[w].pc = "done"
  /\ wk'[w].ret # NULL

UpsertSuccessStep(w) ==
  /\ wk[w].pc = "up_commit"
  /\ wk[w].op = "upsert"
  /\ wk'[w].pc = "done"
  /\ wk'[w].ret = Some(TRUE)

CleanupStep(w) ==
  /\ ops'[w] # ops[w]
  /\ wk'[w].op = "cleanup"

\* C1: when the same request is run twice in sequence and the first run
\* has stored its result, the second run (within the TTL, the entry neither
\* failed nor cleaned) performs no render and no store, and returns the
\* payload as a cache hit of type "exact".
C1_SecondRunServedFromCache ==
  \A w \in Workers :
    (wk[w].op = "task" /\ wk[w].hadExact) =>
      /\ wk[w].pc \notin {"render", "up_commit"}
      /\ wk[w].pc = "done" =>
           /\ wk[w].ret # NULL
           /\ "cache_type" \in DOMAIN wk[w].ret[1]
           /\ wk[w].ret[1].cache_type = "exact"
           /\ wk[w].ret[1].cache_hit
           /\ wk[w].ret[1].result = Some(Render(wk[w].req))

\* C2: the exact query of a lookup hits exactly when the table holds an
\* entry with the request's exact key, status SUCCESS and an expiry that is
\* absent or strictly later than now; the entry it takes is such an entry
\* (so a FAILURE entry, or one at or past its expiry that cleanup has not
\* yet removed, is a miss), and an exact hit returns that entry's payload.
C2_ExactLookupEligibility ==
  [][\A w \in Workers :
       /\ ExactQueryStep(w) =>
            LET eligible ==
                  {r \in db : /\ r.input_hash = ExactKey(wk'[w].req)
                              /\ r.status = "SUCCESS"
                              /\ \/ r.ttl_expires_at = NULL
                                 \/ r.ttl_expires_at[1] > now}
            IN /\ (wk'[w].pc = "lk_commit") <=> (eligible # {})
               /\ (wk'[w].pc = "lk_commit") =>
                    /\ wk'[w].snap # NULL
                    /\ wk'[w].snap[1] \in eligible
                    /\ wk'[w].cache_type = "exact"
       /\ (HitReturnStep(w) /\ wk[w].cache_type = "exact") =>
            /\ wk[w].snap[1].input_hash = ExactKey(wk[w].req)
            /\ wk'[w].ret[1].task_id = wk[w].snap[1].task_id
            /\ wk'[w].ret[1].cache_type = "exact"
            /\ \E r \in db : /\ r.task_id = wk[w].snap[1].task_id
                             /\ wk'[w].ret[1].result = r.result_data
    ]_vars

\* C2 witness: a lookup running alone has just missed on the exact tier
\* although the table still holds a SUCCESS entry under its exact key, for
\* that entry is exactly at its expiry instant.
C2_Witness ==
  /\ ops["w2"] = 0
  /\ wk["w1"].op = "lookup"
  /\ wk["w1"].pc = "lk_candidates"
  /\ \E r \in db : /\ r.input_hash = ExactKey(wk["w1"].req)
                   /\ r.status = "SUCCESS"
                   /\ r.ttl_expires_at = Some(now)

\* C3: after a successful upsert(k, payload), on any state of the table and
\* before the entry expires, an exact lookup of k is answered with exactly
\* that payload; and a lookup hit running with no other writer raises the
\* entry's hit count by exactly one.
C3_RoundTrip ==
  [][\A w \in Workers :
       /\ (UpsertSuccessStep(w) /\ wk[w].t + default_ttl_hours > now) =>
            LET answers == {r \in db' : ExactFilter(r, ExactKey(wk[w].req), now)}
            IN /\ answers # {}
               /\ \A r \in answers : r.result_data = wk[w].result_data
       /\ (HitCommitStep(w) /\ w = "w1" /\ ops["w2"] = 0) =>
            \A r \in db : r.task_id = wk[w].snap[1].task_id =>
              \E r2 \in db' : /\ r2.task_id = r.task_id
                              /\ r2.cache_hits = r.cache_hits + 1
    ]_vars

\* C4: exact keys are unique across entries (two upserts of one key, from
\* different workers, leave exactly one entry for it), and no entry that a
\* completed upsert wrote is partial.
C4_ExactKeyUnique ==
  /\ \A r1 \in db, r2 \in db : r1.input_hash = r2.input_hash => r1 = r2
  /\ \A r \in db : r.status = "SUCCESS" =>
       /\ r.result_data # NULL
       /\ r.perceptual_hash # NULL
       /\ r.ttl_expires_at # NULL

\* C5: the similarity scan considers exactly the SUCCESS, non-expired
\* entries with a perceptual hash; it hits iff the least Hamming distance
\* from the request's hash to one of them is at most the threshold; the
\* entry taken attains that least distance, and the hit is returned with
\* cache_type "perceptual" and similarity_distance equal to it; otherwise
\* the lookup is a miss.
C5_SimilarityLookup ==
  [][\A w \in Workers :
       /\ ScanStep(w) =>
            LET h == generate_perceptual_cache_key(wk[w].req).perceptual_hash
                considered ==
                  {r \in db : /\ r.perceptual_hash # NULL
                              /\ r.status = "SUCCESS"
                              /\ \/ r.ttl_expires_at = NULL
                                 \/ r.ttl_expires_at[1] > now}
                d(r) == hamming_distance(h, r.perceptual_hash[1])
                hit == wk'[w].pc = "lk_commit"
            IN /\ hit <=> (\E r \in considered : d(r) <= wk[w].threshold)
               /\ hit =>
                    /\ wk'[w].snap # NULL
                    /\ wk'[w].snap[1] \in considered
                    /\ wk'[w].cache_type = "perceptual"
                    /\ wk'[w].distance = d(wk'[w].snap[1])
                    /\ \A r \in considered : wk'[w].distance <= d(r)
               /\ ~hit => (wk'[w].pc = "done" /\ wk'[w].ret = NULL)
       /\ (HitReturnStep(w) /\ wk[w].cache_type = "perceptual") =>
            /\ wk'[w].ret[1].cache_type = "perceptual"
            /\ wk'[w].ret[1].similarity_distance = wk[w].distance
            /\ wk'[w].ret[1].task_id = wk[w].snap[1].task_id
    ]_vars

\* C5 witness: a perceptual hit at distance 0 has been returned while the
\* table also holds another candidate within the threshold but farther.
C5_Witness ==
  \E w \in Workers :
    /\ wk[w].pc = "done"
    /\ wk[w].op = "lookup"
    /\ wk[w].ret # NULL
    /\ wk[w].ret[1].cache_type = "perceptual"
    /\ wk[w].ret[1].similarity_distance = 0
    /\ \E r \in db :
         /\ CandidateFilter(r, now)
         /\ r.task_id # wk[w].ret[1].task_id
         /\ hamming_distance(
              generate_perceptual_cache_key(wk[w].req).perceptual_hash,
              r.perceptual_hash[1]) \in 1..SimilarityThreshold

\* C6: the pipeline runs the exact check, then the similarity check, then
\* the computation: a task begins to render only from a similarity scan
\* that has just missed (which itself follows an exact miss).
C6_ComputeOnlyAfterBothMiss ==
  [][\A w \in Workers :
       (wk[w].pc # "render" /\ wk'[w].pc = "render") =>
         /\ wk[w].op = "lookup"
         /\ wk[w].pc = "lk_candidates"
    ]_vars

\* C7: an upsert that found an entry under its exact key creates no entry;
\* when it succeeds it overwrites that entry's payload and perceptual hash,
\* sets its expiry to the call's now + ttl_hours and its last_accessed to
\* the call's now, and leaves its hit count, its key, its status and every
\* other entry unchanged.
C7_UpsertExisting ==
  [][\A w \in Workers :
       (wk[w].pc = "up_commit" /\ wk[w].snap # NULL /\ wk'[w].pc = "done") =>
         LET e == wk[w].snap[1].task_id
         IN /\ {r.task_id : r \in db'} = {r.task_id : r \in db}
            /\ Cardinality(db') = Cardinality(db)
            /\ \A r \in db : r.task_id # e => r \in db'
            /\ \A r \in db : r.task_id = e =>
                 /\ wk'[w].ret = Some(TRUE)
                 /\ [task_id |-> r.task_id,
                     input_hash |-> r.input_hash,
                     status |-> r.status,
                     submitted_at |-> r.submitted_at,
                     cache_hits |-> r.cache_hits,
                     result_data |-> wk[w].result_data,
                     perceptual_hash |->
                       Some(calculate_phash_from_base64(wk[w].req.image)),
                     ttl_expires_at |-> Some(wk[w].t + default_ttl_hours),
                     last_accessed |-> wk[w].t] \in db'
    ]_vars

\* C7 witness: an upsert has returned True on an entry that lookups had hit
\* before (its count is positive) and that an upsert of a later hour wrote.
C7_Witness ==
  /\ ops["w2"] = 0
  /\ wk["w1"].pc = "done"
  /\ wk["w1"].op = "upsert"
  /\ wk["w1"].ret = Some(TRUE)
  /\ now > 0
  /\ \E r \in db : /\ r.input_hash = ExactKey(wk["w1"].req)
                   /\ r.cache_hits > 0
                   /\ r.last_accessed = now
                   /\ r.ttl_expires_at = Some(now + default_ttl_hours)

\* C8: a successful upsert on an entry that a failure had been recorded on
\* leaves the entry with status SUCCESS and the new payload, so that an
\* exact lookup of the key is answered with that payload.
C8_UpsertClearsFailure ==
  [][\A w \in Workers :
       (/\ UpsertSuccessStep(w)
        /\ wk[w].snap # NULL
        /\ wk[w].snap[1].status = "FAILURE"
        /\ wk[w].t + default_ttl_hours > now) =>
         \A r \in db' : r.task_id = wk[w].snap[1].task_id =>
           /\ r.status = "SUCCESS"
           /\ r.result_data = wk[w].result_data
           /\ ExactFilter(r, ExactKey(wk[w].req), now)
    ]_vars

\* C9: cleanup deletes exactly the entries whose expiry is present and
\* strictly earlier than now, leaves every other entry (no expiry, or
\* expiry at or after now) as it was, and returns the number deleted.
C9_CleanupExactlyExpired ==
  [][\A w \in Workers :
       CleanupStep(w) =>
         /\ db' = {r \in db : \/ r.ttl_expires_at = NULL
                              \/ r.ttl_expires_at[1] >= now}
         /\ wk'[w].ret = Some(Cardinality(db) - Cardinality(db'))
    ]_vars

\* C9 witness: a cleanup has deleted an entry and returned 1 while an entry
\* exactly at its expiry instant stayed in the table.
C9_Witness ==
  \E w \in Workers :
    /\ wk[w].pc = "done"
    /\ wk[w].op = "cleanup"
    /\ wk[w].ret = Some(1)
    /\ \E r \in db : r.ttl_expires_at = Some(now)

\* C10: under every interleaving of cleanup with lookups and upserts, no
\* step removes an entry unless its expiry is present and already past; a
\* lookup returns a miss or the whole payload of a stored entry; and an
\* upsert that reports success leaves its entry, with its payload, in the
\* table.
C10_CleanupConcurrencySafe ==
  [][/\ \A r \in db :
          (\A r2 \in db' : r2.task_id # r.task_id) =>
            /\ r.ttl_expires_at # NULL
            /\ r.ttl_expires_at[1] < now
     /\ \A w \in Workers :
          /\ HitReturnStep(w) =>
               \E r \in db : /\ r.task_id = wk'[w].ret[1].task_id
                             /\ r.result_data # NULL
                             /\ wk'[w].ret[1].result = r.result_data
          /\ UpsertSuccessStep(w) =>
               \E r \in db' : /\ r.input_hash = ExactKey(wk[w].req)
                              /\ r.result_data = wk[w].result_data
    ]_vars

\* C10 witness: cleanup removed an entry between the query and the commit
\* of another worker's upsert, which reported failure.
C10_Witness ==
  /\ wk["w2"].pc = "done"
  /\ wk["w2"].op = "upsert"
  /\ wk["w2"].ret = Some(FALSE)
  /\ wk["w1"].op = "cleanup"
  /\ \A r \in db : r.input_hash # ExactKey(wk["w2"].req)

\* C11: an entry's hit count is never negative and no step lowers it,
\* whatever the interleaving of lookups that hit the same key and upserts.
C11_HitCountMonotonic ==
  [][/\ \A r \in db' : r.cache_hits >= 0
     /\ \A r \in db : \A r2 \in db' :
          r2.task_id = r.task_id => r2.cache_hits >= r.cache_hits
    ]_vars

\* C12: a failure record that succeeds, whether it inserts an entry or
\* updates one, leaves that entry with status FAILURE, no payload and no
\* expiry.
C12_FailureEntryShape ==
  [][\A w \in Workers :
       (wk[w].pc = "er_commit" /\ wk'[w].ret = Some(TRUE)) =>
         LET id == IF wk[w].snap = NULL THEN nextTask
                   ELSE wk[w].snap[1].task_id
         IN \E r \in db' : /\ r.task_id = id
                           /\ r.status = "FAILURE"
                           /\ r.result_data = NULL
                           /\ r.ttl_expires_at = NULL
    ]_vars

\* C13: when the computation of a task raises, the run goes on to one
\* best-effort failure write and then raises the original error: the failing
\* step never ends the run with a value returned normally.
C13_FailureSurfaced ==
  [][\A w \in Workers :
       (/\ wk[w].op = "task"
        /\ wk[w].pc = "render"
        /\ wk'[w].pc \notin {"render", "up_commit"}) =>
         /\ wk'[w].pc = "er_commit"
         /\ wk'[w].ret = NULL
    ]_vars

\* C14: when the store call that follows a successful computation ends
\* (stored, reported False, or raised), the task returns the computed
\* result unchanged with status "completed", and no retry is scheduled.
C14_StoreFailureKeepsResult ==
  [][\A w \in Workers :
       (wk[w].op = "task" /\ wk[w].pc = "up_commit" /\ wk'[w].pc = "done") =>
         /\ wk'[w].ret = Some(Render(wk[w].req))
         /\ wk'[w].ret[1].status = "completed"
         /\ retryq' = retryq
    ]_vars

\* C14 witness: a first run has returned its completed result although the
\* store failed: the table holds no entry and no retry is queued.
C14_Witness ==
  /\ wk["w1"].op = "task"
  /\ wk["w1"].pc = "done"
  /\ wk["w1"].ret = Some(Render(wk["w1"].req))
  /\ ops["w1"] = 1
  /\ ops["w2"] = 0
  /\ db = {}
  /\ retryq = <<>>

\* C15: when the store raises during the cache lookup of a run, the lookup
\* counts as a miss and the run goes on to compute: a lookup ends either in
\* a hit that is returned or in the computation with nothing raised, and a
\* run that computes ends with the computed result or with the
\* computation's own error, never with the store's.
C15_LookupErrorIsMiss ==
  [][\A w \in Workers :
       /\ (/\ wk[w].pc \in {"lg_commit", "lg_return"}
           /\ wk'[w].pc \notin {"lg_commit", "lg_return"}) =>
            \/ /\ wk'[w].pc = "lg_render"
               /\ wk'[w].ret = NULL
               /\ wk'[w].req = wk[w].req
            \/ /\ wk'[w].pc = "done"
               /\ wk'[w].ret # NULL
               /\ "cache_hit" \in DOMAIN wk'[w].ret[1]
       /\ (wk[w].pc = "lg_render" /\ wk'[w].pc = "done") =>
            wk'[w].ret \in {Some(Render(wk[w].req)),
                            Some([raised |-> "render"])}
    ]_vars

\* C15 witness: a run working alone is about to compute although the table
\* holds a fresh SUCCESS entry under its key: its lookup had found the entry
\* and then met an error of the store.
C15_Witness ==
  /\ ops["w2"] = 0
  /\ wk["w1"].op = "legacy"
  /\ wk["w1"].pc = "lg_render"
  /\ \E r \in db : ExactFilter(r, generate_cache_key(wk["w1"].req), now)

\* C16: re-invoking the pipeline for an input whose completed run has
\* stored its entry changes neither the set of cache entries nor any
\* entry's exact key, status or payload, and touches no entry of another
\* input.
C16_ReinvocationKeepsEntries ==
  [][\A w \in Workers :
       (/\ wk[w].op = "legacy"
        /\ wk[w].hadExact
        /\ wk[w].pc # "done"
        /\ wk'[w] # wk[w]) =>
         /\ {r.task_id : r \in db'} = {r.task_id : r \in db}
         /\ \A r \in db : \E r2 \in db' :
              /\ r2.task_id = r.task_id
              /\ r2.input_hash = r.input_hash
              /\ r2.status = r.status
              /\ r2.result_data = r.result_data
              /\ r.input_hash # generate_cache_key(wk[w].req) => r2 = r
    ]_vars

\* C17: the exact key covers the whole image: an exact-key hit returns a
\* payload that was computed for the image of the request it answers.
C17_ExactHitSameImage ==
  [][\A w \in Workers :
       (HitReturnStep(w) /\ wk[w].cache_type = "exact") =>
         /\ wk'[w].ret[1].result # NULL
         /\ wk'[w].ret[1].result[1].rendered_from.image = wk[w].req.image
    ]_vars

\* C18: with all other inputs equal, two requests whose opacities differ by
\* less than 0.005 get the same exact key, two whose opacities differ by
\* more than 0.01 get different keys, and identical requests get the
\* identical key; for either key function.
C18_OpacityPrecision ==
  \A w1 \in Workers, w2 \in Workers :
    (/\ wk[w1].op = "keys" /\ wk[w1].pc = "done"
     /\ wk[w2].op = "keys" /\ wk[w2].pc = "done"
     /\ wk[w1].req.image = wk[w2].req.image
     /\ wk[w1].req.params.landmarks = wk[w2].req.params.landmarks) =>
      LET o1 == wk[w1].req.params.region_opacity
          o2 == wk[w2].req.params.region_opacity
          change == IF o1 >= o2 THEN o1 - o2 ELSE o2 - o1
          same == /\ wk[w1].ret[1].exact_key = wk[w2].ret[1].exact_key
                  /\ wk[w1].ret[1].cache_key = wk[w2].ret[1].cache_key
          differ == /\ wk[w1].ret[1].exact_key # wk[w2].ret[1].exact_key
                    /\ wk[w1].ret[1].cache_key # wk[w2].ret[1].cache_key
      IN /\ change < 5 => same
         /\ change > 10 => differ

\* C19: a region map supplied with a request reaches the task, and the
\* regions of the result are exactly the caller's regions with their
\* contours; the built-in five regions are used only when the request
\* carries no map.
C19_CustomRegionsForwarded ==
  \A w \in Workers :
    wk[w].op = "submit" =>
      /\ (wk[w].pc = "queued" /\ wk[w].req.segmentation_map # NULL) =>
           /\ "segmentation_map" \in DOMAIN wk[w].snap[1]
           /\ wk[w].snap[1].segmentation_map = wk[w].req.segmentation_map[1]
      /\ wk[w].pc = "done" =>
           LET regions == wk[w].ret[1].region_data
           IN IF wk[w].req.segmentation_map # NULL
                THEN /\ DOMAIN regions = DOMAIN wk[w].req.segmentation_map[1]
                     /\ \A n \in DOMAIN regions :
                          regions[n] = wk[w].req.segmentation_map[1][n]
                ELSE DOMAIN regions = DOMAIN MEDIAPIPE_FACE_REGIONS

\* C20: the document holds exactly one path for each region with a
\* configured color and at least 3 resolved in-range points, in the order
\* of the region map; a region with fewer such points or without a color is
\* left out, an out-of-range index is left out of its region, and the call
\* does not raise.
C20_OnePathPerDrawableRegion ==
  \A w \in Workers :
    (wk[w].op = "overlay" /\ wk[w].pc = "done") =>
      LET in_range(indices) ==
            SelectSeq(indices, LAMBDA idx : 0 <= idx /\ idx < MaxLandmarks)
          drawable ==
            SelectSeq(wk[w].req.facial_regions,
                      LAMBDA e : /\ e.name \in wk[w].req.region_colors
                                 /\ Len(in_range(e.indices)) >= 3)
      IN /\ "paths" \in DOMAIN wk[w].ret[1]
         /\ Len(wk[w].ret[1].paths) = Len(drawable)
         /\ \A i \in 1..Len(drawable) :
              /\ wk[w].ret[1].paths[i].region = drawable[i].name
              /\ wk[w].ret[1].paths[i].points = in_range(drawable[i].indices)

\* C21: with show_labels the document holds exactly one text per rendered
\* region, numbered 1, 2, 3, ... in the order of the region map (a skipped
\* region takes no number), each right after its region's path and placed
\* at the mean of the points of that path; without show_labels it holds no
\* text.
C21_LabelsPerRenderedRegion ==
  \A w \in Workers :
    (wk[w].op = "overlay" /\ wk[w].pc = "done"
     /\ "svg_parts" \in DOMAIN wk[w].ret[1]) =>
      LET doc == wk[w].ret[1]
          mean(points, c) ==
            LET total == SumSeq([i \in 1..Len(points) |->
                                   IF c = "x" THEN Landmark(points[i]).x
                                              ELSE Landmark(points[i]).y])
            IN ((200 * total) + Len(points)) \div (2 * Len(points))
      IN IF wk[w].req.show_labels
           THEN /\ Len(doc.texts) = Len(doc.paths)
                /\ \A i \in 1..Len(doc.texts) :
                     /\ doc.texts[i].label = i
                     /\ doc.svg_parts[(2 * i) - 1] = doc.paths[i]
                     /\ doc.svg_parts[2 * i] = doc.texts[i]
                     /\ doc.texts[i].x = mean(doc.paths[i].points, "x")
                     /\ doc.texts[i].y = mean(doc.paths[i].points, "y")
           ELSE /\ doc.texts = <<>>
                /\ doc.svg_parts = doc.paths

\* C21 witness: the first region of the map was skipped and the second
\* rendered, and the document holds one text, numbered 1.
C21_Witness ==
  /\ wk["w1"].op = "overlay"
  /\ wk["w1"].pc = "done"
  /\ wk["w1"].req.show_labels
  /\ "texts" \in DOMAIN wk["w1"].ret[1]
  /\ Len(wk["w1"].ret[1].texts) = 1
  /\ wk["w1"].ret[1].texts[1].label = 1
  /\ wk["w1"].ret[1].paths[1].region = wk["w1"].req.facial_regions[2].name

\* C22: the contour returned for the forehead region equals the
\* ForeheadExtrapolator output, the points the forehead is drawn from,
\* rather than the raw landmarks.
C22_ContoursAreDrawnPoints ==
  \A w \in Workers :
    (wk[w].op = "forehead" /\ wk[w].pc = "contours"
     /\ "extended_boundary" \in DOMAIN wk[w].ret[1]) =>
      wk[w].snap[1] = wk[w].ret[1].extended_boundary

\* C23: landmarks_to_svg_path returns the empty path for 0 or 1 points; for
\* 2 points one move and exactly one line and no curve, whatever smooth; for
\* 3 points with smooth, and for 3 or more without, lines only; for 4 or
\* more points with smooth at least one cubic curve and no line.
C23_PathCommands ==
  \A w \in Workers :
    (wk[w].op \in {"final_path", "app_path"} /\ wk[w].pc = "done") =>
      LET n == Len(wk[w].req.landmarks)
          smooth == IF wk[w].req.smooth = NULL THEN TRUE
                                               ELSE wk[w].req.smooth[1]
          path == wk[w].ret[1].path
          count(c) == Cardinality({i \in 1..Len(path) : path[i].cmd = c})
      IN /\ "path" \in DOMAIN wk[w].ret[1]
         /\ n <= 1 => path = <<>>
         /\ n = 2 => (count("M") = 1 /\ count("L") = 1 /\ count("C") = 0)
         /\ (n >= 3 /\ (~smooth \/ n = 3)) =>
              (count("M") = 1 /\ count("L") = n - 1 /\ count("C") = 0)
         /\ (n >= 4 /\ smooth) => (count("C") >= 1 /\ count("L") = 0)

\* C24: whenever the path is not empty, closed=true makes it end with Z and
\* closed=false leaves it without any Z.
C24_ClosedEndsWithZ ==
  \A w \in Workers :
    (wk[w].op \in {"final_path", "app_path"} /\ wk[w].pc = "done"
     /\ "path" \in DOMAIN wk[w].ret[1] /\ wk[w].ret[1].path # <<>>) =>
      LET path == wk[w].ret[1].path
      IN IF wk[w].req.closed
           THEN path[Len(path)].cmd = "Z"
           ELSE \A i \in 1..Len(path) : path[i].cmd # "Z"

\* C25: for every landmark set and every extension_ratio > 0, each top-arc
\* point of the output lies strictly above its source landmark (its y is
\* strictly smaller).
C25_TopArcMovesUp ==
  \A w \in Workers :
    (wk[w].op = "forehead" /\ wk[w].pc \in {"done", "contours"}
     /\ "extended_boundary" \in DOMAIN wk[w].ret[1]) =>
      LET out == wk[w].ret[1].extended_boundary
          indices == wk[w].req.forehead_indices
      IN \A j \in 1..Len(indices) :
           indices[j] \in SeqRange(top_forehead_indices) =>
             out[j].y < FaceY(wk[w].req, indices[j]) * out[j].den

\* C26: the output has the length and the order of the boundary list: a
\* top-arc index holds the extended point of that index, any other index
\* the source landmark with its coordinates; the call leaves its input as
\* it was.
C26_BoundaryPreserved ==
  [][\A w \in Workers :
       (wk[w].pc = "idle" /\ wk'[w].op = "forehead" /\ wk'[w].pc = "done"
        /\ "extended_boundary" \in DOMAIN wk'[w].ret[1]) =>
         LET out == wk'[w].ret[1].extended_boundary
             indices == wk[w].req.forehead_indices
             n == wk[w].req.num_landmarks
         IN /\ wk'[w].req = wk[w].req
            /\ Len(out) = Len(indices)
            /\ \A j \in 1..Len(indices) :
                 IF indices[j] \in SeqRange(top_forehead_indices)
                   THEN out[j].x = FaceX(indices[j]) + XShift(indices[j])
                   ELSE LET i == IF indices[j] < 0 THEN n + indices[j]
                                                   ELSE indices[j]
                        IN /\ out[j].x = FaceX(i)
                           /\ out[j].y = FaceY(wk[w].req, i) * out[j].den
    ]_vars

\* C26 witness: the default forehead boundary came back, 25 points long.
C26_Witness ==
  /\ wk["w1"].op = "forehead"
  /\ wk["w1"].pc = "done"
  /\ wk["w1"].req.forehead_indices = MEDIAPIPE_FACE_REGIONS.forehead
  /\ "extended_boundary" \in DOMAIN wk["w1"].ret[1]
  /\ Len(wk["w1"].ret[1].extended_boundary) = 25

\* C27: with top-arc, eyebrow or boundary indices out of range for the
\* landmark set the call does not raise, and every in-range top-arc index
\* of the boundary holds the point extended by its own table entry.
C27_OutOfRangeSkipped ==
  \A w \in Workers :
    (wk[w].op = "forehead" /\ wk[w].pc \in {"done", "contours"}) =>
      /\ "extended_boundary" \in DOMAIN wk[w].ret[1]
      /\ LET out == wk[w].ret[1].extended_boundary
             indices == wk[w].req.forehead_indices
         IN \A j \in 1..Len(indices) :
              indices[j] \in SeqRange(top_forehead_indices) =>
                out[j].x = FaceX(indices[j]) + XShift(indices[j])


\* C28: hamming_distance returns 4 x the longer length for hashes of
\* different lengths and the number of differing bits otherwise, so 0 for
\* identical hashes; the calls with the arguments in the two orders return
\* the same distance; is_similar_image holds exactly when that distance is at
\* most the threshold.
C28_HammingDistance ==
  \A w \in Workers :
    wk[w].pc = "done" =>
      LET a == wk[w].req.hash1
          b == wk[w].req.hash2
          Bit(d, k) == (d \div (2 ^ k)) % 2
          differing == {p \in (1..Len(a)) \X (0..3) :
                          Bit(a[p[1]], p[2]) # Bit(b[p[1]], p[2])}
          expected == IF Len(a) # Len(b)
                        THEN 4 * (IF Len(a) > Len(b) THEN Len(a) ELSE Len(b))
                        ELSE Cardinality(differing)
      IN /\ wk[w].op = "hamming_distance" =>
              /\ wk[w].ret[1].distance = expected
              /\ a = b => wk[w].ret[1].distance = 0
              /\ \A v \in Workers :
                   (wk[v].pc = "done" /\ wk[v].op = "hamming_distance") =>
                     wk[v].ret[1].distance = wk[w].ret[1].distance
         /\ wk[w].op = "is_similar_image" =>
              (wk[w].ret[1].similar <=> expected <= wk[w].req.threshold)

\* Both orders of two different hashes of one length were measured.
C28_Witness ==
  /\ \A w \in Workers : wk[w].pc = "done" /\ wk[w].op = "hamming_distance"
  /\ Len(wk["w1"].req.hash1) = Len(wk["w1"].req.hash2)
  /\ wk["w1"].req.hash1 # wk["w1"].req.hash2
  /\ wk["w1"].ret[1].distance > 0

C30_HitRatio ==
  \A w \in Workers :
    (wk[w].op = "stats" /\ wk[w].pc = "done"
     /\ "cache_hit_ratio" \in DOMAIN wk[w].ret[1]) =>
      LET stats == wk[w].ret[1]
          ratio == stats.cache_hit_ratio
      IN /\ stats.total_requests = 0 => ratio = 0
         /\ stats.total_requests > 0 =>
              /\ 2 * stats.total_requests * ratio
                   <= (20000 * stats.cache_hits) + stats.total_requests
              /\ 2 * stats.total_requests * ratio
                   > (20000 * stats.cache_hits) - stats.total_requests
         /\ ratio >= 0
         /\ ratio <= 10000
         /\ stats.cache_efficiency =
              (IF /\ stats.total_requests > 0
                  /\ 100 * stats.cache_hits > 70 * stats.total_requests
                 THEN "excellent"
               ELSE IF /\ stats.total_requests > 0
                       /\ 100 * stats.cache_hits > 40 * stats.total_requests
                 THEN "good"
               ELSE "needs_improvement")

\* C31: a perceptual hit returns a result that was rendered for the
\* landmarks and the render flags of the request it answers.
C31_PerceptualHitSameParams ==
  \A w \in Workers :
    (wk[w].op = "lookup" /\ wk[w].pc = "done" /\ wk[w].ret # NULL
     /\ wk[w].ret[1].cache_type = "perceptual") =>
      /\ wk[w].ret[1].result # NULL
      /\ wk[w].ret[1].result[1].rendered_from.params = wk[w].req.params

\* C32: a cache hit returns a result that was rendered with the region map
\* of the request it answers.
C32_HitSameRegionMap ==
  \A w \in Workers :
    (wk[w].op = "lookup" /\ wk[w].pc = "done" /\ wk[w].ret # NULL) =>
      /\ wk[w].ret[1].result # NULL
      /\ wk[w].ret[1].result[1].rendered_from.segmentation_map
           = wk[w].req.segmentation_map

\* C33: a run of the pipeline that starts for an input with a recorded
\* FAILURE entry does not go on to compute and render that input again.
C33_NegativeCaching ==
  [][\A w \in Workers :
       (/\ wk[w].pc \in {"idle", "done"}
        /\ wk'[w].op = "legacy"
        /\ ops'[w] = ops[w] + 1
        /\ \E r \in db : /\ r.status = "FAILURE"
                         /\ r.input_hash = generate_cache_key(wk'[w].req)) =>
         wk'[w].pc # "lg_render"
    ]_vars

\* C34: an execution of the task whose processing raises returns the
\* {'status': 'failed'} result only when the retry budget is used up, and no
\* execution runs with more than max_retries retries behind it.
C34_FailedAfterRetries ==
  [][\A w \in Workers :
       (wk[w].op = "task" /\ wk[w].pc = "render") =>
         /\ wk[w].retries <= max_retries
         /\ (wk'[w].pc = "done" /\ wk'[w].ret[1].status = "failed") =>
              /\ wk[w].retries = max_retries
              /\ retryq' = retryq
    ]_vars

\* C35: a step of a lookup leaves the set of entries as it is and changes at
\* most one entry, in its hit count and last_accessed only; the lookup that
\* changed an entry returns that entry, so a lookup that answers None has
\* changed nothing.
C35_LookupFrame ==
  [][\A w \in Workers :
       (wk[w].op = "lookup" /\ wk[w].pc # "done" /\ wk'[w] # wk[w]) =>
         /\ {r.task_id : r \in db'} = {r.task_id : r \in db}
         /\ Cardinality(db') = Cardinality(db)
         /\ Cardinality(db \ db') <= 1
         /\ \A r \in db : \E r2 \in db' :
              r2 = [r EXCEPT !.cache_hits = r2.cache_hits,
                             !.last_accessed = r2.last_accessed]
         /\ db' # db => wk[w].pc = "lk_commit"
         /\ (wk[w].pc = "lk_return" /\ wk'[w].pc = "done") =>
              /\ wk'[w].ret # NULL
              /\ wk'[w].ret[1].task_id = wk[w].snap[1].task_id
    ]_vars

\* C36: at every instant no entry is both servable by a lookup and
\* deletable by cleanup, and an entry whose expiry equals now is neither: a
\* lookup selects only entries without expiry or with expiry after now,
\* cleanup deletes only entries whose expiry is before now.
C36_ServedAndPurgedDisjoint ==
  [][/\ \A r \in db :
          /\ ~(NotExpired(r, now) /\ ExpiredFilter(r, now))
          /\ r.ttl_expires_at = Some(now) =>
               (~NotExpired(r, now) /\ ~ExpiredFilter(r, now))
     /\ \A w \in Workers :
          /\ CleanupStep(w) =>
               /\ \A r \in db \ db' : /\ r.ttl_expires_at # NULL
                                      /\ r.ttl_expires_at[1] < now
               /\ \A r \in db : r.ttl_expires_at = Some(now) => r \in db'
          /\ ((ExactQueryStep(w) \/ ScanStep(w)) /\ wk'[w].pc = "lk_commit") =>
               \/ wk'[w].snap[1].ttl_expires_at = NULL
               \/ wk'[w].snap[1].ttl_expires_at[1] > now
    ]_vars

\* C36 witness: an entry is exactly at its expiry instant; the lookup of its
\* key that is under way has missed on it, and the cleanup of the other
\* worker has left it in the table.
C36_Witness ==
  /\ wk["w1"].op = "lookup"
  /\ wk["w1"].pc = "lk_candidates"
  /\ wk["w2"].op = "cleanup"
  /\ wk["w2"].pc = "done"
  /\ wk["w2"].ret = Some(0)
  /\ \E r \in db : /\ r.input_hash = ExactKey(wk["w1"].req)
                   /\ r.status = "SUCCESS"
                   /\ r.ttl_expires_at = Some(now)
                   /\ r.submitted_at < now

\* C37: an upsert or a failure record that reports False, and a cleanup
\* that reports 0, has left the table exactly as it was: no step of that
\* call adds, removes or changes an entry, and the call returns its report
\* instead of raising.
C37_StoreErrorRollsBack ==
  [][\A w \in Workers :
       /\ (wk[w].pc \in {"up_commit", "er_commit"} /\ wk'[w].pc = "done") =>
            /\ wk'[w].ret \in {Some(TRUE), Some(FALSE)}
            /\ wk'[w].ret = Some(FALSE) => (db' = db /\ nextTask' = nextTask)
       /\ (wk[w].pc \in {"idle", "done"}
           /\ wk'[w].pc \in {"up_commit", "er_commit"}) => db' = db
       /\ CleanupStep(w) =>
            /\ wk'[w].ret = Some(Cardinality(db) - Cardinality(db'))
            /\ wk'[w].ret = Some(0) => db' = db
    ]_vars

\* C37 witness: an upsert into the empty table has reported False, and no
\* entry was ever inserted.
C37_Witness ==
  \E w \in Workers :
    /\ wk[w].op = "upsert"
    /\ wk[w].pc = "done"
    /\ wk[w].ret = Some(FALSE)
    /\ db = {}
    /\ nextTask = 1

C39_SmoothSegments ==
  \A w \in Workers :
    (/\ wk[w].op \in {"final_path", "app_path"}
     /\ wk[w].pc = "done"
     /\ Len(wk[w].req.landmarks) >= 4
     /\ wk[w].req.smooth \in {NULL, Some(TRUE)}) =>
      /\ "path" \in DOMAIN wk[w].ret[1]
      /\ LET pts == wk[w].req.landmarks
             n == Len(pts)
             closed == wk[w].req.closed
             segments == SelectSeq(wk[w].ret[1].path, LAMBDA e : e.cmd = "C")
             sixth(num) == ((200 * num) + 6) \div 12
         IN /\ Len(segments) = IF closed THEN n ELSE n - 1
            /\ \A k \in 1..Len(segments) :
                 LET end == IF k = n THEN pts[1] ELSE pts[k + 1]
                 IN /\ segments[k].args[5] = 100 * end[1]
                    /\ segments[k].args[6] = 100 * end[2]
            /\ closed =>
                 /\ segments[1].args[1]
                      = sixth((6 * pts[1][1]) + (pts[2][1] - pts[n][1]))
                 /\ segments[1].args[2]
                      = sixth((6 * pts[1][2]) + (pts[2][2] - pts[n][2]))
                 /\ segments[n].args[3]
                      = sixth((6 * pts[1][1]) - (pts[2][1] - pts[n][1]))
                 /\ segments[n].args[4]
                      = sixth((6 * pts[1][2]) - (pts[2][2] - pts[n][2]))

\* C40: the payload of every SUCCESS entry was computed from an input whose
\* key is the entry's key, whichever branch of the store wrote it.
C40_PayloadMatchesKey ==
  \A r \in db :
    (r.status = "SUCCESS" /\ r.result_data # NULL) =>
      r.input_hash = generate_cache_key(r.result_data[1].rendered_from)
=============================================================================
